---- MODULE Spec2Model ----
(***************************************************************************)
(* DPLL-solver: the sequential engine (Solver) and the parallel engine     *)
(* (ParallelSolver, WorkQueue) of src/solver/parallel_solver.go, on the    *)
(* clause lists that src/parser/parser.go accepts.                         *)
(***************************************************************************)
EXTENDS Integers, Sequences, FiniteSets, TLC

\* ------------------------------------------------------------------ bounds
\* Variable ids of the enumerated inputs are 1..MaxVar.
MaxVar == 2
\* Greatest number of literals of an enumerated clause line.
MaxLits == 2
\* Greatest number of clause lines of an enumerated input.
MaxClauses == 3

\* Greatest number of worker goroutines of a parallel run.
MaxWorkers == 2
\* Greatest --parallel-depth of a parallel run (0 is unlimited).
MaxDepth == 1

\* --------------------------------------------------------------- constants
UNSOLVED == 0
SATISFIABLE == 1
UNSATISFIABLE == 2
UNKNOWN == 3

\* bestSolutionSize before any solution is recorded: int(^uint(0) >> 1).
MaxInt == 2147483647

VARIABLES
  parserLines,      \* Parser.Lines: the clause lines of the file, as integers before the 0
  Problem,          \* Task.Clauses: the parsed clauses, never changed by an engine
  s,                \* the sequential Solver: Result, WorkCopy, Solution, CheckpointStack
  pc,               \* position of main: "parse", "rejected" (Parse returned an error),
                    \* "solve" (in the loop of Solver.Solve) or "done"
  NumWorkers,       \* ParallelSolver.NumWorkers
  ParallelDepth,    \* ParallelSolver.ParallelDepth
  OptimumMode,      \* ParallelSolver.OptimumMode
  workQueue,        \* WorkQueue: items (the top is the last), closed
  resultChan,       \* chan Result of capacity 1: the values buffered
  solutionChan,     \* chan *parser.Clause of capacity 1: the values buffered
  doneChan,         \* TRUE once close(ps.doneChan) has run
  foundSolution,    \* ParallelSolver.foundSolution
  bestSolution,     \* ParallelSolver.bestSolution: <<>> for nil, else <<solution>>
  bestSolutionSize, \* ParallelSolver.bestSolutionSize
  busyWorkers,      \* ParallelSolver.busyWorkers
  mu,               \* the worker inside DecrementBusyWorkers holding ps.mu, else 0
  worker,           \* the worker goroutines: position, item depth, Solver, locals
  solve,            \* ParallelSolver.Solve: position, result, solution returned
  sends,            \* history: the sends that succeeded on each channel
  heap              \* the objects behind the pointers and slices of a run with one
                    \* worker: arrays, Clause objects, and the variables that point to them

seqVars == <<s, pc>>

cfgVars == <<NumWorkers, ParallelDepth, OptimumMode>>

chanVars == <<resultChan, solutionChan, doneChan, sends>>

coordVars == <<foundSolution, bestSolution, bestSolutionSize, busyWorkers, mu>>

parVars == <<workQueue, chanVars, coordVars, worker, solve>>

vars == <<heap, parserLines, Problem, seqVars, cfgVars, parVars>>

\* ------------------------------------------------------------------- data
\* parser.Variable
Variable(id, negated, impossible) ==
  [ID |-> id, Negated |-> negated, Impossible |-> impossible]

RemoveAt(seq, i) == SubSeq(seq, 1, i - 1) \o SubSeq(seq, i + 1, Len(seq))

\* A clause line as the parser reads it: the integers before the closing 0.
ClauseInts == {n \in (0 - MaxVar)..MaxVar : n # 0}

ClauseLines == UNION {[1..k -> ClauseInts] : k \in 0..MaxLits}

\* Fault: a validation that looks for the number itself, not for its negative.
validateNoNegativePairs_Repeats(slice) ==
  \A i \in 1..Len(slice) : \A j \in 1..(i - 1) : slice[j] # slice[i]

\* validateNoNegativePairs: false when the negative of a number is also there.
validateNoNegativePairs(slice) ==
  \A i \in 1..Len(slice) : \A j \in 1..(i - 1) : slice[j] # 0 - slice[i]

\* parseClauseLine, for a line of well-formed tokens ending in 0.
parseClauseLine(slice) ==
  [i \in 1..Len(slice) |->
     IF slice[i] < 0 THEN Variable(0 - slice[i], TRUE, FALSE)
                     ELSE Variable(slice[i], FALSE, FALSE)]

\* The clause lists Parser.Parse can deliver within the bounds.
ParsedClauses == {parseClauseLine(l) : l \in {x \in ClauseLines : validateNoNegativePairs(x)}}

Inputs == UNION {[1..k -> ParsedClauses] : k \in 0..MaxClauses}

\* The files within the bounds, as the clause lines Parse goes through.
RawInputs == UNION {[1..k -> ClauseLines] : k \in 0..MaxClauses}

\* Parse returns no error: parseClauseLine accepted every clause line.
accepted(lines) == \A i \in 1..Len(lines) : validateNoNegativePairs(lines[i])

\* Parse, on success: task.Clauses, the clause of every line in file order.
Lines(lines) == [i \in 1..Len(lines) |-> parseClauseLine(lines[i])]

\* The runs whose objects are not followed: no heap.
noHeap == <<>>

\* ------------------------------------------------------- Solver (sequential)
\* NewSolver: a deep copy of the task's clauses, an empty Solution, Result UNKNOWN.
NewSolver(clauses) ==
  [Result |-> UNKNOWN, WorkCopy |-> clauses, Solution |-> <<>>, CheckpointStack |-> <<>>]

\* markCheckpoint: a deep copy of WorkCopy and of Solution.
\* Fault: a checkpoint that forgets the Solution reached so far.
markCheckpoint_NoSolution(S) == [WorkCopy |-> S.WorkCopy, Solution |-> <<>>]

markCheckpoint(S) == [WorkCopy |-> S.WorkCopy, Solution |-> S.Solution]

isSolved(S) == Len(S.WorkCopy) = 0

hasContradiction(S) ==
  \E i \in 1..Len(S.WorkCopy) :
    /\ \A j \in 1..Len(S.WorkCopy[i]) : S.WorkCopy[i][j].Impossible
    /\ Len(S.WorkCopy[i]) > 0

\* Fault: a test that takes a working set with an empty clause for open.
isUnsolvable_NoEmptyClause(S) ==
  /\ Len(S.WorkCopy) # 0
  /\ Len(S.CheckpointStack) = 0
  /\ \A i \in 1..Len(S.WorkCopy) :
       Len(S.WorkCopy[i]) > 0 /\ \A j \in 1..Len(S.WorkCopy[i]) : S.WorkCopy[i][j].Impossible

isUnsolvable(S) ==
  /\ Len(S.WorkCopy) # 0
  /\ Len(S.CheckpointStack) = 0
  /\ \A i \in 1..Len(S.WorkCopy) : \A j \in 1..Len(S.WorkCopy[i]) : S.WorkCopy[i][j].Impossible

\* Fault: a reducer that takes a literal of rVar's id for rVar whatever its
\* polarity.
holdsVar_AnyPolarity(clause, rVar) ==
  \E j \in 1..Len(clause) : ~clause[j].Impossible /\ clause[j].ID = rVar.ID

\* Fault: a reducer that looks for rVar at the head of a clause only.
holdsVar_FirstLiteral(clause, rVar) ==
  /\ Len(clause) > 0
  /\ ~clause[1].Impossible /\ clause[1].ID = rVar.ID /\ clause[1].Negated = rVar.Negated

\* reduceWorkingSet --------------------------------------------------------
\* The inner loop skips impossible literals; on the first literal equal to rVar
\* it removes the clause and restarts at preLoop.
holdsVar(clause, rVar) ==
  \E j \in 1..Len(clause) :
    ~clause[j].Impossible /\ clause[j].ID = rVar.ID /\ clause[j].Negated = rVar.Negated

\* Fault: a reducer that leaves the opposite literals unmarked.
markOpposite_None(clause, rVar) == clause

\* Fault: a reducer that marks the first opposite literal of a clause only.
markOpposite_FirstOnly(clause, rVar) ==
  [j \in 1..Len(clause) |->
     IF /\ ~clause[j].Impossible /\ clause[j].ID = rVar.ID /\ clause[j].Negated # rVar.Negated
        /\ \A k \in 1..(j - 1) :
             clause[k].Impossible \/ clause[k].ID # rVar.ID \/ clause[k].Negated = rVar.Negated
     THEN [clause[j] EXCEPT !.Impossible = TRUE] ELSE clause[j]]

\* The literals the inner loop marks: non-impossible, rVar's id, other polarity.
opposes(cVar, rVar) ==
  ~cVar.Impossible /\ cVar.ID = rVar.ID /\ cVar.Negated # rVar.Negated

markOpposite(clause, rVar) ==
  [j \in 1..Len(clause) |->
     IF opposes(clause[j], rVar) THEN [clause[j] EXCEPT !.Impossible = TRUE] ELSE clause[j]]

\* The loop ends after a pass without a removal: every clause holding rVar is
\* gone, in the others every opposite literal is marked, the order is kept.
\* didWork is set where a literal is marked, which the goto skips: a mark in a
\* clause that is removed counts when it comes before the literal equal to rVar.
reduceWorkingSet(clauses, rVar) ==
  LET open(clause) == ~holdsVar(clause, rVar)
      kept == SelectSeq(clauses, open)
  IN  [WorkCopy |-> [i \in 1..Len(kept) |-> markOpposite(kept[i], rVar)],
       didWork |->
         \E i \in 1..Len(clauses) : \E j \in 1..Len(clauses[i]) :
           /\ opposes(clauses[i][j], rVar)
           /\ ~holdsVar(SubSeq(clauses[i], 1, j - 1), rVar)]

\* unitPropagation ---------------------------------------------------------
nonImpossible(clause) == {j \in 1..Len(clause) : ~clause[j].Impossible}

nonImpossibleCount(clause) == Cardinality(nonImpossible(clause))

\* The clauses unitPropagation's scan stops at: exactly one non-impossible literal.
unitClauses(clauses) == {i \in 1..Len(clauses) : nonImpossibleCount(clauses[i]) = 1}

\* Fault: a loop over the other clauses that removes the satisfied ones and
\* marks nothing.
unitLoop_NoMark(clauses, unit) ==
  LET open(clause) ==
        ~\E j \in 1..Len(clause) :
           clause[j].ID = unit.ID /\ clause[j].Negated = unit.Negated
  IN  SelectSeq(clauses, open)

\* The loop of unitPropagation over the other clauses does not look at the
\* Impossible flag: a clause with a literal of the unit's id and polarity is
\* removed (and the loop restarted), a literal of the unit's id and the other
\* polarity is marked.
unitLoop(clauses, unit) ==
  LET open(clause) ==
        ~\E j \in 1..Len(clause) :
           clause[j].ID = unit.ID /\ clause[j].Negated = unit.Negated
      kept == SelectSeq(clauses, open)
  IN  [i \in 1..Len(kept) |->
         [j \in 1..Len(kept[i]) |->
            IF kept[i][j].ID = unit.ID
            THEN [kept[i][j] EXCEPT !.Impossible = TRUE]
            ELSE kept[i][j]]]

unitPropagation(S) ==
  LET clauses == S.WorkCopy
      found == unitClauses(clauses)
  IN  IF found = {} THEN [did |-> FALSE, s |-> S]
      ELSE LET clauseID == CHOOSE i \in found : \A k \in found : i <= k
               clause == clauses[clauseID]
               unit == clause[CHOOSE j \in nonImpossible(clause) : TRUE]
           IN  [did |-> TRUE,
                s |-> [S EXCEPT !.Solution = Append(S.Solution, unit),
                                !.WorkCopy = unitLoop(RemoveAt(clauses, clauseID), unit)]]

\* pureLiteral -------------------------------------------------------------
RECURSIVE flatten(_)
flatten(clauses) ==
  IF clauses = <<>> THEN <<>> ELSE Head(clauses) \o flatten(Tail(clauses))

\* The keys of variablePolarity and of variableUsageMap: ids with a
\* non-impossible occurrence.
usedIDs(clauses) ==
  LET all == flatten(clauses)
  IN  {all[k].ID : k \in {n \in 1..Len(all) : ~all[n].Impossible}}

\* variablePolarity[id]: the polarities seen on non-impossible occurrences.
variablePolarity(clauses, id) ==
  LET all == flatten(clauses)
  IN  {all[k].Negated : k \in {n \in 1..Len(all) : ~all[n].Impossible /\ all[n].ID = id}}

\* The first occurrence of id in working-set order among those `ok` accepts.
firstOccurrence(clauses, id, skipImpossible) ==
  LET all == flatten(clauses)
      hits == {n \in 1..Len(all) :
                 all[n].ID = id /\ (skipImpossible => ~all[n].Impossible)}
  IN  all[CHOOSE n \in hits : \A m \in hits : n <= m]

\* Fault: a sweep that takes every variable in use for pure.
pureIDs_Used(clauses) == usedIDs(clauses)

\* The keys of pureLiterals: ids seen in exactly one polarity.
pureIDs(clauses) ==
  {id \in usedIDs(clauses) : Cardinality(variablePolarity(clauses, id)) = 1}

\* The orders in which `range pureLiterals` can deliver its keys.
mapOrders(ids) ==
  {f \in [1..Cardinality(ids) -> ids] :
     \A a, b \in 1..Cardinality(ids) : a # b => f[a] # f[b]}

containsPureLit(clause, pureLit) ==
  \E j \in 1..Len(clause) :
    /\ clause[j].ID = pureLit.ID
    /\ clause[j].Negated = pureLit.Negated
    /\ ~clause[j].Impossible

\* The second half of pureLiteral: one pure literal after the other, each
\* appended to the Solution and its clauses filtered out of the current list.
RECURSIVE removePure(_, _, _)
removePure(clauses, solution, lits) ==
  IF lits = <<>> THEN [WorkCopy |-> clauses, Solution |-> solution]
  ELSE LET pureLit == Head(lits)
           keep(clause) == ~containsPureLit(clause, pureLit)
       IN  removePure(SelectSeq(clauses, keep), Append(solution, pureLit), Tail(lits))

\* pureLiteral, with `order` the order in which the map delivers the pure ids.
pureLiteral(S, order) ==
  LET clauses == S.WorkCopy
      pureLiterals == [k \in 1..Len(order) |-> firstOccurrence(clauses, order[k], TRUE)]
      r == removePure(clauses, S.Solution, pureLiterals)
  IN  [did |-> Len(order) > 0,
       s |-> [S EXCEPT !.WorkCopy = r.WorkCopy, !.Solution = r.Solution]]

\* split -------------------------------------------------------------------
variableUsage(clauses, id) ==
  LET all == flatten(clauses)
  IN  Cardinality({n \in 1..Len(all) : ~all[n].Impossible /\ all[n].ID = id})

\* Fault: a loop over variableUsageMap that ends with any id in use.
maxVarIDs_Any(clauses) == IF usedIDs(clauses) = {} THEN {0} ELSE usedIDs(clauses)

\* What the loop over variableUsageMap can end with in maxVarID: the first id
\* delivered among those with the greatest count, so any of them; 0 on an
\* empty map.
maxVarIDs(clauses) ==
  LET ids == usedIDs(clauses)
      best == {id \in ids : \A o \in ids : variableUsage(clauses, o) <= variableUsage(clauses, id)}
  IN  IF ids = {} THEN {0} ELSE best

\* Fault: a checkpoint that holds the branch literal itself.
negate_Same(cVar) == cVar

negate(cVar) == Variable(cVar.ID, ~cVar.Negated, cVar.Impossible)

split(S, maxVarID) ==
  IF maxVarID = 0 THEN [did |-> FALSE, s |-> S]
  ELSE LET cVar == firstOccurrence(S.WorkCopy, maxVarID, FALSE)
           checkpoint == markCheckpoint(S)
           pushed == [checkpoint EXCEPT !.Solution = Append(@, negate(cVar))]
           r == reduceWorkingSet(S.WorkCopy, cVar)
       IN  [did |-> r.didWork,
            s |-> [S EXCEPT !.CheckpointStack = Append(@, pushed),
                            !.Solution = Append(@, cVar),
                            !.WorkCopy = r.WorkCopy]]

\* Fault: a backtrack that restores the checkpoint and does not reduce.
backtrack_NoReduce(S) ==
  IF Len(S.CheckpointStack) = 0 THEN [did |-> FALSE, s |-> S]
  ELSE LET backtrackPoint == S.CheckpointStack[Len(S.CheckpointStack)]
       IN  [did |-> TRUE,
            s |-> [S EXCEPT !.CheckpointStack = SubSeq(@, 1, Len(@) - 1),
                            !.Solution = backtrackPoint.Solution,
                            !.WorkCopy = backtrackPoint.WorkCopy]]

\* Fault: a backtrack that leaves the checkpoint on the stack.
backtrack_NoPop(S) ==
  IF Len(S.CheckpointStack) = 0 THEN [did |-> FALSE, s |-> S]
  ELSE LET backtrackPoint == S.CheckpointStack[Len(S.CheckpointStack)]
           sol == backtrackPoint.Solution
           r == reduceWorkingSet(backtrackPoint.WorkCopy, sol[Len(sol)])
       IN  [did |-> TRUE,
            s |-> [S EXCEPT !.Solution = sol, !.WorkCopy = r.WorkCopy]]

\* backtrack ---------------------------------------------------------------
backtrack(S) ==
  IF Len(S.CheckpointStack) = 0 THEN [did |-> FALSE, s |-> S]
  ELSE LET backtrackPoint == S.CheckpointStack[Len(S.CheckpointStack)]
           sol == backtrackPoint.Solution
           r == reduceWorkingSet(backtrackPoint.WorkCopy, sol[Len(sol)])
       IN  [did |-> TRUE,
            s |-> [S EXCEPT !.CheckpointStack = SubSeq(@, 1, Len(@) - 1),
                            !.Solution = sol,
                            !.WorkCopy = r.WorkCopy]]

\* A worker goroutine that holds no work item: its locals are dead.
noSolver == [Result |-> UNKNOWN, WorkCopy |-> <<>>, Solution |-> <<>>, CheckpointStack |-> <<>>]

\* A *parser.Clause: nil, or a reference to a clause.
nil == <<>>

ref(clause) == <<clause>>

idle == [pc |-> "top", Depth |-> 0, s |-> noSolver, items |-> <<>>, bestSol |-> nil]

\* The state of a ParallelSolver that NewParallelSolver has built for
\* numWorkers workers and whose Solve has not been called.
NewParallelSolver(numWorkers, parallelDepth, optimum) ==
  /\ NumWorkers = numWorkers
  /\ ParallelDepth = parallelDepth
  /\ OptimumMode = optimum
  /\ workQueue = [items |-> <<>>, closed |-> FALSE]
  /\ resultChan = <<>>
  /\ solutionChan = <<>>
  /\ doneChan = FALSE
  /\ foundSolution = FALSE
  /\ bestSolution = nil
  /\ bestSolutionSize = MaxInt
  /\ busyWorkers = 0
  /\ mu = 0
  /\ worker = [w \in 1..numWorkers |-> idle]
  /\ solve = [pc |-> "start", result |-> UNKNOWN, solution |-> nil]
  /\ sends = [result |-> 0, solution |-> 0]

\* ------------------------------------------------------------ Solver.Solve
\* One action per way through one iteration of the loop.
\* The sequential run of main.go: no --parallel.
Init ==
  /\ parserLines \in {lines \in RawInputs : accepted(lines)}
  /\ Problem = Lines(parserLines)
  /\ s = NewSolver(Problem)
  /\ pc = "solve"
  /\ NewParallelSolver(0, 0, FALSE)
  /\ heap = noHeap

SolveSolved ==
  /\ pc = "solve"
  /\ isSolved(s)
  /\ s' = [s EXCEPT !.Result = SATISFIABLE]
  /\ pc' = "done"
  /\ UNCHANGED <<heap, parserLines, Problem, cfgVars, parVars>>

SolveUnsolvable ==
  /\ pc = "solve"
  /\ ~isSolved(s)
  /\ isUnsolvable(s)
  /\ s' = [s EXCEPT !.Result = UNSATISFIABLE]
  /\ pc' = "done"
  /\ UNCHANGED <<heap, parserLines, Problem, cfgVars, parVars>>

SolveContradiction ==
  /\ pc = "solve"
  /\ ~isSolved(s)
  /\ ~isUnsolvable(s)
  /\ hasContradiction(s)
  /\ LET b == backtrack(s)
     IN  IF b.did THEN s' = b.s /\ pc' = "solve"
         ELSE s' = [s EXCEPT !.Result = UNSATISFIABLE] /\ pc' = "done"
  /\ UNCHANGED <<heap, parserLines, Problem, cfgVars, parVars>>

\* Fault: a loop that goes on to the propagation steps without the test for a
\* contradiction.
propagates_Unchecked(S) == ~isSolved(S) /\ ~isUnsolvable(S)

\* No early exit applies: the iteration goes on to the propagation steps.
propagates(S) == ~isSolved(S) /\ ~isUnsolvable(S) /\ ~hasContradiction(S)

SolveUnitPropagation ==
  /\ pc = "solve"
  /\ propagates(s)
  /\ unitPropagation(s).did
  /\ s' = unitPropagation(s).s
  /\ UNCHANGED <<heap, parserLines, Problem, pc, cfgVars, parVars>>

SolvePureLiteral ==
  /\ pc = "solve"
  /\ propagates(s)
  /\ ~unitPropagation(s).did
  /\ \E order \in mapOrders(pureIDs(s.WorkCopy)) :
       /\ pureLiteral(s, order).did
       /\ s' = pureLiteral(s, order).s
  /\ UNCHANGED <<heap, parserLines, Problem, pc, cfgVars, parVars>>

\* Neither unit propagation nor the pure-literal step did work.
splits(S) ==
  /\ propagates(S)
  /\ ~unitPropagation(S).did
  /\ pureIDs(S.WorkCopy) = {}

SolveSplit ==
  /\ pc = "solve"
  /\ splits(s)
  /\ \E maxVarID \in maxVarIDs(s.WorkCopy) :
       /\ split(s, maxVarID).did
       /\ s' = split(s, maxVarID).s
  /\ UNCHANGED <<heap, parserLines, Problem, pc, cfgVars, parVars>>

\* split returned false: the fallback backtrack, or the break that leaves the
\* Result as it is.
SolveFallback ==
  /\ pc = "solve"
  /\ splits(s)
  /\ \E maxVarID \in maxVarIDs(s.WorkCopy) :
       /\ ~split(s, maxVarID).did
       /\ LET b == backtrack(split(s, maxVarID).s)
          IN  /\ s' = b.s
              /\ pc' = IF b.did THEN "solve" ELSE "done"
  /\ UNCHANGED <<heap, parserLines, Problem, cfgVars, parVars>>

Next ==
  \/ SolveSolved
  \/ SolveUnsolvable
  \/ SolveContradiction
  \/ SolveUnitPropagation
  \/ SolvePureLiteral
  \/ SolveSplit
  \/ SolveFallback

Spec == Init /\ [][Next]_vars

\* ---------------------------------------------------------------- WorkQueue
WorkItem(workCopy, solution, depth) ==
  [WorkCopy |-> workCopy, Solution |-> solution, Depth |-> depth]

Push(wq, item) == [wq EXCEPT !.items = Append(@, item)]

\* Fault: a Pop that does not wait on an empty open queue.
canPop_NoWait(wq) == TRUE

\* Pop returns once the queue holds an item or is closed.
canPop(wq) == Len(wq.items) > 0 \/ wq.closed

QueueLen(wq) == Len(wq.items)

\* Fault: a Close that neither sets the flag nor wakes the waiting workers.
Close_Noop(wq) == wq

\* Fault: a Close that flips the flag, so that a second Close reopens the queue.
Close_Toggle(wq) == [wq EXCEPT !.closed = ~@]

Close(wq) == [wq EXCEPT !.closed = TRUE]

\* Fault: a channel without a capacity.
trySend_Unbounded(ch, v) == Append(ch, v)

\* A send in a select with a default: it succeeds when the one slot is free.
trySend(ch, v) == IF Len(ch) = 0 THEN Append(ch, v) ELSE ch

\* The send case was taken, not the default.
sent(ch, v) == trySend(ch, v) # ch

\* ----------------------------------------------------------- ParallelSolver
maxQueueSize == NumWorkers * 4

\* Fault: a test that looks at the queue length only.
shouldParallelize_NoDepth(queueLen, currentDepth) == queueLen < maxQueueSize

shouldParallelize(queueLen, currentDepth) ==
  IF queueLen >= maxQueueSize THEN FALSE
  ELSE IF ParallelDepth = 0 THEN TRUE
  ELSE currentDepth < ParallelDepth

\* Fault: a branch whose Solution lacks the split literal.
branchItem_NoLiteral(S, splitVar, currentDepth) ==
  WorkItem(reduceWorkingSet(S.WorkCopy, splitVar).WorkCopy, S.Solution, currentDepth + 1)

\* One branch of parallelSplit: the deep copy, the Solution extended by
\* splitVar, the working set reduced with it, one level deeper.
branchItem(S, splitVar, currentDepth) ==
  WorkItem(reduceWorkingSet(S.WorkCopy, splitVar).WorkCopy,
           Append(S.Solution, splitVar),
           currentDepth + 1)

\* parallelSplit up to its pushes: the two work items in the order pushed.
parallelSplit(S, maxVarID, currentDepth) ==
  IF maxVarID = 0 THEN [did |-> FALSE, items |-> <<>>]
  ELSE LET pickedVariable == firstOccurrence(S.WorkCopy, maxVarID, FALSE)
           asIs == Variable(pickedVariable.ID, pickedVariable.Negated, FALSE)
           negated == Variable(pickedVariable.ID, ~pickedVariable.Negated, FALSE)
       IN  [did |-> TRUE,
            items |-> <<branchItem(S, asIs, currentDepth),
                        branchItem(S, negated, currentDepth)>>]

\* processWorkItem returns: the worker goes on to DecrementBusyWorkers and has
\* no use for the item any more.
return(w) == worker' = [worker EXCEPT ![w] = [idle EXCEPT !.pc = "dec"]]

\* `continue` in processWorkItem's loop with the Solver in state S.
continue(w, S) == worker' = [worker EXCEPT ![w].s = S, ![w].pc = "procDone"]

goto(w, to) == worker' = [worker EXCEPT ![w].pc = to]

\* The worker goroutine returns (and runs its deferred activeWorkers.Done).
exit(w) == worker' = [worker EXCEPT ![w] = [idle EXCEPT !.pc = "exit"]]

\* worker: the select on doneChan at the top of the loop.
WorkerPollDone(w) ==
  /\ solve.pc # "start"
  /\ worker[w].pc = "top"
  /\ IF doneChan THEN exit(w) ELSE goto(w, IF OptimumMode THEN "pop" ELSE "check")
  /\ UNCHANGED <<heap, parserLines, Problem, seqVars, cfgVars, workQueue, chanVars, coordVars, solve>>

\* worker: !ps.OptimumMode && ps.HasFoundSolution().
WorkerHasFound(w) ==
  /\ worker[w].pc = "check"
  /\ mu = 0
  /\ IF foundSolution THEN exit(w) ELSE goto(w, "pop")
  /\ UNCHANGED <<heap, parserLines, Problem, seqVars, cfgVars, workQueue, chanVars, coordVars, solve>>

\* Fault: a Pop that takes the coordinator mutex while it holds the queue
\* mutex (the reverse of DecrementBusyWorkers' order).
WorkerPop_LocksMu(w) ==
  /\ worker[w].pc = "pop"
  /\ canPop(workQueue)
  /\ mu = 0
  /\ IF Len(workQueue.items) = 0
     THEN /\ goto(w, "nilLen")
          /\ UNCHANGED workQueue
     ELSE LET item == workQueue.items[Len(workQueue.items)]
          IN  /\ workQueue' = [workQueue EXCEPT !.items = SubSeq(@, 1, Len(@) - 1)]
              /\ worker' = [worker EXCEPT ![w] =
                   [pc |-> "inc", Depth |-> item.Depth, items |-> <<>>, bestSol |-> nil,
                    s |-> [Result |-> UNKNOWN, WorkCopy |-> item.WorkCopy,
                           Solution |-> item.Solution, CheckpointStack |-> <<>>]]]
  /\ UNCHANGED <<heap, parserLines, Problem, seqVars, cfgVars, chanVars, coordVars, solve>>

\* Fault: a Pop that hands out the oldest item of the queue.
WorkerPop_Fifo(w) ==
  /\ worker[w].pc = "pop"
  /\ canPop(workQueue)
  /\ IF Len(workQueue.items) = 0
     THEN /\ goto(w, "nilLen")
          /\ UNCHANGED workQueue
     ELSE LET item == Head(workQueue.items)
          IN  /\ workQueue' = [workQueue EXCEPT !.items = Tail(@)]
              /\ worker' = [worker EXCEPT ![w] =
                   [pc |-> "inc", Depth |-> item.Depth, items |-> <<>>, bestSol |-> nil,
                    s |-> [Result |-> UNKNOWN, WorkCopy |-> item.WorkCopy,
                           Solution |-> item.Solution, CheckpointStack |-> <<>>]]]
  /\ UNCHANGED <<heap, parserLines, Problem, seqVars, cfgVars, chanVars, coordVars, solve>>

\* Fault: a Pop that hands out the newest item and leaves it in the queue.
WorkerPop_Peek(w) ==
  /\ worker[w].pc = "pop"
  /\ canPop(workQueue)
  /\ IF Len(workQueue.items) = 0
     THEN goto(w, "nilLen")
     ELSE LET item == workQueue.items[Len(workQueue.items)]
          IN  worker' = [worker EXCEPT ![w] =
                [pc |-> "inc", Depth |-> item.Depth, items |-> <<>>, bestSol |-> nil,
                 s |-> [Result |-> UNKNOWN, WorkCopy |-> item.WorkCopy,
                        Solution |-> item.Solution, CheckpointStack |-> <<>>]]]
  /\ UNCHANGED <<heap, parserLines, Problem, seqVars, cfgVars, workQueue, chanVars, coordVars, solve>>

\* worker: item := ps.workQueue.Pop().
WorkerPop(w) ==
  /\ worker[w].pc = "pop"
  /\ canPop(workQueue)
  /\ IF Len(workQueue.items) = 0
     THEN /\ goto(w, "nilLen")
          /\ UNCHANGED workQueue
     ELSE LET item == workQueue.items[Len(workQueue.items)]
          IN  /\ workQueue' = [workQueue EXCEPT !.items = SubSeq(@, 1, Len(@) - 1)]
              /\ worker' = [worker EXCEPT ![w] =
                   [pc |-> "inc", Depth |-> item.Depth, items |-> <<>>, bestSol |-> nil,
                    s |-> [Result |-> UNKNOWN, WorkCopy |-> item.WorkCopy,
                           Solution |-> item.Solution, CheckpointStack |-> <<>>]]]
  /\ UNCHANGED <<heap, parserLines, Problem, seqVars, cfgVars, chanVars, coordVars, solve>>

\* worker, item == nil: ps.workQueue.Len() == 0.
WorkerNilLen(w) ==
  /\ worker[w].pc = "nilLen"
  /\ IF QueueLen(workQueue) = 0 THEN goto(w, "nilBusy") ELSE exit(w)
  /\ UNCHANGED <<heap, parserLines, Problem, seqVars, cfgVars, workQueue, chanVars, coordVars, solve>>

\* worker, item == nil: ps.GetBusyWorkers() == 0.
WorkerNilBusy(w) ==
  /\ worker[w].pc = "nilBusy"
  /\ mu = 0
  /\ IF busyWorkers = 0
     THEN goto(w, IF OptimumMode THEN "nilFound" ELSE "nilNotFound")
     ELSE exit(w)
  /\ UNCHANGED <<heap, parserLines, Problem, seqVars, cfgVars, workQueue, chanVars, coordVars, solve>>

\* worker, item == nil: ps.OptimumMode && ps.HasFoundSolution().
WorkerNilFound(w) ==
  /\ worker[w].pc = "nilFound"
  /\ mu = 0
  /\ goto(w, IF foundSolution THEN "sendSat" ELSE "nilNotFound")
  /\ UNCHANGED <<heap, parserLines, Problem, seqVars, cfgVars, workQueue, chanVars, coordVars, solve>>

\* worker, item == nil: else if !ps.HasFoundSolution().
WorkerNilNotFound(w) ==
  /\ worker[w].pc = "nilNotFound"
  /\ mu = 0
  /\ IF foundSolution THEN exit(w) ELSE goto(w, "sendUnsat")
  /\ UNCHANGED <<heap, parserLines, Problem, seqVars, cfgVars, workQueue, chanVars, coordVars, solve>>

\* worker, search exhausted in optimum mode: case ps.resultChan <- SATISFIABLE.
WorkerSendSatisfiable(w) ==
  /\ worker[w].pc = "sendSat"
  /\ resultChan' = trySend(resultChan, SATISFIABLE)
  /\ IF sent(resultChan, SATISFIABLE)
     THEN goto(w, "getBest") /\ sends' = [sends EXCEPT !.result = @ + 1]
     ELSE exit(w) /\ UNCHANGED sends
  /\ UNCHANGED <<heap, parserLines, Problem, seqVars, cfgVars, workQueue, solutionChan, doneChan, coordVars, solve>>

\* worker: bestSol, bestSize := ps.GetBestSolution().
WorkerGetBest(w) ==
  /\ worker[w].pc = "getBest"
  /\ mu = 0
  /\ worker' = [worker EXCEPT ![w].pc = "sendBest", ![w].bestSol = bestSolution]
  /\ UNCHANGED <<heap, parserLines, Problem, seqVars, cfgVars, workQueue, chanVars, coordVars, solve>>

\* worker: case ps.solutionChan <- bestSol.
WorkerSendBest(w) ==
  /\ worker[w].pc = "sendBest"
  /\ solutionChan' = trySend(solutionChan, worker[w].bestSol)
  /\ sends' = [sends EXCEPT !.solution = @ + (IF sent(solutionChan, worker[w].bestSol) THEN 1 ELSE 0)]
  /\ exit(w)
  /\ UNCHANGED <<heap, parserLines, Problem, seqVars, cfgVars, workQueue, resultChan, doneChan, coordVars, solve>>

\* worker, nothing found: case ps.resultChan <- UNSATISFIABLE.
WorkerSendUnsatisfiable(w) ==
  /\ worker[w].pc = "sendUnsat"
  /\ resultChan' = trySend(resultChan, UNSATISFIABLE)
  /\ sends' = [sends EXCEPT !.result = @ + (IF sent(resultChan, UNSATISFIABLE) THEN 1 ELSE 0)]
  /\ exit(w)
  /\ UNCHANGED <<heap, parserLines, Problem, seqVars, cfgVars, workQueue, solutionChan, doneChan, coordVars, solve>>

\* worker: ps.IncrementBusyWorkers(), then processWorkItem builds its Solver.
WorkerIncrement(w) ==
  /\ worker[w].pc = "inc"
  /\ mu = 0
  /\ busyWorkers' = busyWorkers + 1
  /\ goto(w, "procDone")
  /\ UNCHANGED <<heap, parserLines, Problem, seqVars, cfgVars, workQueue, chanVars, foundSolution,
                 bestSolution, bestSolutionSize, mu, solve>>


\* processWorkItem: the select on doneChan at the top of its loop.
ProcPollDone(w) ==
  /\ worker[w].pc = "procDone"
  /\ IF doneChan THEN return(w) ELSE goto(w, IF OptimumMode THEN "step" ELSE "procFound")
  /\ UNCHANGED <<heap, parserLines, Problem, seqVars, cfgVars, workQueue, chanVars, coordVars, solve>>

\* processWorkItem: !ps.OptimumMode && ps.HasFoundSolution().
ProcHasFound(w) ==
  /\ worker[w].pc = "procFound"
  /\ mu = 0
  /\ IF foundSolution THEN return(w) ELSE goto(w, "step")
  /\ UNCHANGED <<heap, parserLines, Problem, seqVars, cfgVars, workQueue, chanVars, coordVars, solve>>

\* Fault: an optimum mode that publishes the first solution it records.
ProcSolvedOptimum_Publishing(w) ==
  /\ worker[w].pc = "step"
  /\ OptimumMode
  /\ isSolved(worker[w].s)
  /\ mu = 0
  /\ bestSolution' = ref(worker[w].s.Solution)
  /\ bestSolutionSize' = Len(worker[w].s.Solution)
  /\ foundSolution' = TRUE
  /\ goto(w, "sendResult")
  /\ UNCHANGED <<heap, parserLines, Problem, seqVars, cfgVars, workQueue, chanVars, busyWorkers, mu, solve>>

\* processWorkItem, s.isSolved() in optimum mode: UpdateBestSolution, then the
\* backtrack into the next open branch of this item.
ProcSolvedOptimum(w) ==
  /\ worker[w].pc = "step"
  /\ OptimumMode
  /\ isSolved(worker[w].s)
  /\ mu = 0
  /\ IF Len(worker[w].s.Solution) < bestSolutionSize
     THEN /\ bestSolution' = ref(worker[w].s.Solution)
          /\ bestSolutionSize' = Len(worker[w].s.Solution)
          /\ foundSolution' = TRUE
     ELSE UNCHANGED <<bestSolution, bestSolutionSize, foundSolution>>
  /\ LET b == backtrack(worker[w].s)
     IN  IF b.did THEN continue(w, b.s) ELSE return(w)
  /\ UNCHANGED <<heap, parserLines, Problem, seqVars, cfgVars, workQueue, chanVars, busyWorkers, mu, solve>>

\* processWorkItem, s.isSolved() in normal mode: ps.SetFoundSolution().
ProcSolved(w) ==
  /\ worker[w].pc = "step"
  /\ ~OptimumMode
  /\ isSolved(worker[w].s)
  /\ mu = 0
  /\ foundSolution' = TRUE
  /\ goto(w, "sendResult")
  /\ UNCHANGED <<heap, parserLines, Problem, seqVars, cfgVars, workQueue, chanVars, bestSolution,
                 bestSolutionSize, busyWorkers, mu, solve>>

\* processWorkItem: case ps.resultChan <- SATISFIABLE, or default.
ProcSendResult(w) ==
  /\ worker[w].pc = "sendResult"
  /\ resultChan' = trySend(resultChan, SATISFIABLE)
  /\ sends' = [sends EXCEPT !.result = @ + (IF sent(resultChan, SATISFIABLE) THEN 1 ELSE 0)]
  /\ goto(w, "sendSolution")
  /\ UNCHANGED <<heap, parserLines, Problem, seqVars, cfgVars, workQueue, solutionChan, doneChan, coordVars, solve>>

\* processWorkItem: case ps.solutionChan <- s.Solution, or default.
ProcSendSolution(w) ==
  /\ worker[w].pc = "sendSolution"
  /\ solutionChan' = trySend(solutionChan, ref(worker[w].s.Solution))
  /\ sends' = [sends EXCEPT !.solution = @ + (IF sent(solutionChan, ref(worker[w].s.Solution)) THEN 1 ELSE 0)]
  /\ goto(w, "close")
  /\ UNCHANGED <<heap, parserLines, Problem, seqVars, cfgVars, workQueue, resultChan, doneChan, coordVars, solve>>

\* processWorkItem: ps.workQueue.Close() after the two sends, then return.
ProcClose(w) ==
  /\ worker[w].pc = "close"
  /\ workQueue' = Close(workQueue)
  /\ return(w)
  /\ UNCHANGED <<heap, parserLines, Problem, seqVars, cfgVars, chanVars, coordVars, solve>>

\* Fault: a worker that reports UNSATISFIABLE as soon as its own branch is
\* unsolvable, with the rest of the queue unexplored.
ProcUnsolvable_Publishing(w) ==
  /\ worker[w].pc = "step"
  /\ ~isSolved(worker[w].s)
  /\ isUnsolvable(worker[w].s)
  /\ goto(w, "sendUnsat")
  /\ UNCHANGED <<heap, parserLines, Problem, seqVars, cfgVars, workQueue, chanVars, coordVars, solve>>

ProcUnsolvable(w) ==
  /\ worker[w].pc = "step"
  /\ ~isSolved(worker[w].s)
  /\ isUnsolvable(worker[w].s)
  /\ return(w)
  /\ UNCHANGED <<heap, parserLines, Problem, seqVars, cfgVars, workQueue, chanVars, coordVars, solve>>

ProcContradiction(w) ==
  /\ worker[w].pc = "step"
  /\ ~isSolved(worker[w].s)
  /\ ~isUnsolvable(worker[w].s)
  /\ hasContradiction(worker[w].s)
  /\ LET b == backtrack(worker[w].s)
     IN  IF b.did THEN continue(w, b.s) ELSE return(w)
  /\ UNCHANGED <<heap, parserLines, Problem, seqVars, cfgVars, workQueue, chanVars, coordVars, solve>>

ProcUnitPropagation(w) ==
  /\ worker[w].pc = "step"
  /\ propagates(worker[w].s)
  /\ unitPropagation(worker[w].s).did
  /\ continue(w, unitPropagation(worker[w].s).s)
  /\ UNCHANGED <<heap, parserLines, Problem, seqVars, cfgVars, workQueue, chanVars, coordVars, solve>>

ProcPureLiteral(w) ==
  /\ worker[w].pc = "step"
  /\ propagates(worker[w].s)
  /\ ~unitPropagation(worker[w].s).did
  /\ \E order \in mapOrders(pureIDs(worker[w].s.WorkCopy)) :
       /\ pureLiteral(worker[w].s, order).did
       /\ continue(w, pureLiteral(worker[w].s, order).s)
  /\ UNCHANGED <<heap, parserLines, Problem, seqVars, cfgVars, workQueue, chanVars, coordVars, solve>>

\* processWorkItem, shouldParallelize said yes: parallelSplit has built its two
\* work items and goes on to push them; with no variable left it returns false
\* and the loop falls through to backtrack.
ProcParallelSplit(w) ==
  /\ worker[w].pc = "step"
  /\ splits(worker[w].s)
  /\ shouldParallelize(QueueLen(workQueue), worker[w].Depth)
  /\ \E maxVarID \in maxVarIDs(worker[w].s.WorkCopy) :
       LET r == parallelSplit(worker[w].s, maxVarID, worker[w].Depth)
           b == backtrack(worker[w].s)
       IN  IF r.did
           THEN worker' = [worker EXCEPT ![w].items = r.items, ![w].pc = "push"]
           ELSE IF b.did THEN continue(w, b.s) ELSE return(w)
  /\ UNCHANGED <<heap, parserLines, Problem, seqVars, cfgVars, workQueue, chanVars, coordVars, solve>>

\* parallelSplit: ps.workQueue.Push(newItem) for the next of the two items;
\* after the second, parallelSplit returns true and the loop continues with the
\* worker's own Solver as it was.
ProcPush(w) ==
  /\ worker[w].pc = "push"
  /\ workQueue' = Push(workQueue, Head(worker[w].items))
  /\ worker' = [worker EXCEPT ![w].items = Tail(@),
                              ![w].pc = IF Len(worker[w].items) = 1 THEN "procDone" ELSE "push"]
  /\ UNCHANGED <<heap, parserLines, Problem, seqVars, cfgVars, chanVars, coordVars, solve>>

\* processWorkItem, shouldParallelize said no: s.split() with a checkpoint, and
\* the fallback backtrack when it returns false.
ProcSplit(w) ==
  /\ worker[w].pc = "step"
  /\ splits(worker[w].s)
  /\ ~shouldParallelize(QueueLen(workQueue), worker[w].Depth)
  /\ \E maxVarID \in maxVarIDs(worker[w].s.WorkCopy) :
       LET r == split(worker[w].s, maxVarID)
           b == backtrack(r.s)
       IN  IF r.did THEN continue(w, r.s)
           ELSE IF b.did THEN continue(w, b.s) ELSE return(w)
  /\ UNCHANGED <<heap, parserLines, Problem, seqVars, cfgVars, workQueue, chanVars, coordVars, solve>>

\* Fault: a worker that goes back for the next item without the decrement.
DecrementBusyWorkers_Skip(w) ==
  /\ worker[w].pc = "dec"
  /\ mu = 0
  /\ goto(w, "top")
  /\ UNCHANGED <<heap, parserLines, Problem, seqVars, cfgVars, workQueue, chanVars, coordVars, solve>>

\* DecrementBusyWorkers: ps.mu.Lock(); ps.busyWorkers--. With other workers
\* busy the deferred Unlock follows at once; otherwise ps.mu stays held.
DecrementBusyWorkers(w) ==
  /\ worker[w].pc = "dec"
  /\ mu = 0
  /\ busyWorkers' = busyWorkers - 1
  /\ IF busyWorkers - 1 = 0
     THEN mu' = w /\ goto(w, "decLen")
     ELSE mu' = 0 /\ goto(w, "top")
  /\ UNCHANGED <<heap, parserLines, Problem, seqVars, cfgVars, workQueue, chanVars, foundSolution,
                 bestSolution, bestSolutionSize, solve>>

\* DecrementBusyWorkers: ps.workQueue.Len() == 0, then the mode test.
DecrementLen(w) ==
  /\ worker[w].pc = "decLen"
  /\ mu = w
  /\ IF QueueLen(workQueue) = 0 /\ (OptimumMode \/ ~foundSolution)
     THEN goto(w, "decClose") /\ UNCHANGED mu
     ELSE goto(w, "top") /\ mu' = 0
  /\ UNCHANGED <<heap, parserLines, Problem, seqVars, cfgVars, workQueue, chanVars, foundSolution,
                 bestSolution, bestSolutionSize, busyWorkers, solve>>

\* DecrementBusyWorkers: ps.workQueue.Close(), then the deferred Unlock.
DecrementClose(w) ==
  /\ worker[w].pc = "decClose"
  /\ mu = w
  /\ workQueue' = Close(workQueue)
  /\ mu' = 0
  /\ goto(w, "top")
  /\ UNCHANGED <<heap, parserLines, Problem, seqVars, cfgVars, chanVars, foundSolution,
                 bestSolution, bestSolutionSize, busyWorkers, solve>>


\* ------------------------------------------------------ ParallelSolver.Solve
\* Solve: the root work item (a deep copy of the problem, an empty Solution,
\* Depth 0) is pushed and the worker goroutines are started.
SolveStart ==
  /\ pc = "done"
  /\ solve.pc = "start"
  /\ workQueue' = Push(workQueue, WorkItem(Problem, <<>>, 0))
  /\ solve' = [solve EXCEPT !.pc = "receive"]
  /\ UNCHANGED <<heap, parserLines, Problem, seqVars, cfgVars, chanVars, coordVars, worker>>

\* Solve: result := <-ps.resultChan.
SolveReceive ==
  /\ solve.pc = "receive"
  /\ Len(resultChan) > 0
  /\ solve' = [solve EXCEPT !.pc = "closeDone", !.result = Head(resultChan)]
  /\ resultChan' = Tail(resultChan)
  /\ UNCHANGED <<heap, parserLines, Problem, seqVars, cfgVars, workQueue, solutionChan, doneChan,
                 sends, coordVars, worker>>

\* Solve: close(ps.doneChan).
SolveCloseDone ==
  /\ solve.pc = "closeDone"
  /\ doneChan' = TRUE
  /\ solve' = [solve EXCEPT !.pc = "closeQueue"]
  /\ UNCHANGED <<heap, parserLines, Problem, seqVars, cfgVars, workQueue, resultChan, solutionChan,
                 sends, coordVars, worker>>

\* Solve: ps.workQueue.Close().
SolveCloseQueue ==
  /\ solve.pc = "closeQueue"
  /\ workQueue' = Close(workQueue)
  /\ solve' = [solve EXCEPT !.pc = "wait"]
  /\ UNCHANGED <<heap, parserLines, Problem, seqVars, cfgVars, chanVars, coordVars, worker>>

\* Solve: ps.activeWorkers.Wait() returns once every worker has returned.
SolveWait ==
  /\ solve.pc = "wait"
  /\ \A w \in 1..NumWorkers : worker[w].pc = "exit"
  /\ solve' = [solve EXCEPT !.pc = IF solve.result = SATISFIABLE
                                   THEN "receiveSolution" ELSE "returned"]
  /\ UNCHANGED <<heap, parserLines, Problem, seqVars, cfgVars, workQueue, chanVars, coordVars, worker>>

\* Solve, result SATISFIABLE: solution := <-ps.solutionChan; return.
SolveReceiveSolution ==
  /\ solve.pc = "receiveSolution"
  /\ Len(solutionChan) > 0
  /\ solve' = [solve EXCEPT !.pc = "returned", !.solution = Head(solutionChan)]
  /\ solutionChan' = Tail(solutionChan)
  /\ UNCHANGED <<heap, parserLines, Problem, seqVars, cfgVars, workQueue, resultChan, doneChan,
                 sends, coordVars, worker>>

\* Formulas on which every split has one most used variable.
TieFreeLines ==
  { << <<1>> >>,
    << <<1>>, <<-1>> >>,
    << <<1>>, <<-1>>, <<2>> >>,
    << <<1, 2, 3>>, <<-1, -2>>, <<1, -3>> >>,
    << <<1, 2>>, <<1, -2>>, <<-1, 3>>, <<-1, -3>> >> }

\* Formulas with equally used variables, a formula with an empty clause line,
\* a formula whose branch on variable 1 has to split again.
TieLines ==
  { << <<1, 2>> >>,
    << <<1, -2>>, <<-1, 2>> >>,
    << <<1, 2>>, <<-1, -2>> >>,
    << <<>>, <<1, 2>>, <<-1, -2>> >>,
    << <<1, 2>>, <<3, 4>>, <<-1, -3>>, <<-2, -4>> >>,
    << <<-1, 2, 3>>, <<-1, -2, -3>>, <<1, 2>>, <<1, -3>> >> }

TieFreeInputs == {Lines(lines) : lines \in TieFreeLines}

TieInputs == {Lines(lines) : lines \in TieLines}

ParLines == TieFreeLines \cup TieLines

ParInputs == TieFreeInputs \cup TieInputs

\* The runs: every formula with one worker; with more workers the formulas
\* whose splits have no choice among equally used variables, at unlimited
\* depth (they split at depth 0 only, so a depth limit changes nothing).
ParRuns ==
  {run \in [clauses : ParInputs, numWorkers : 1..MaxWorkers,
            parallelDepth : 0..MaxDepth, optimum : BOOLEAN] :
     run.numWorkers > 1 => run.clauses \in TieFreeInputs /\ run.parallelDepth = 0}

\* main.go with --parallel: the same file solved by Solver.Solve and then by
\* ParallelSolver.Solve with --workers, --parallel-depth and --optimum.
ParInit ==
  \E run \in ParRuns :
    /\ parserLines \in {lines \in ParLines : Lines(lines) = run.clauses}
    /\ Problem = run.clauses
    /\ s = NewSolver(Problem)
    /\ pc = "solve"
    /\ NewParallelSolver(run.numWorkers, run.parallelDepth, run.optimum)
    /\ heap = noHeap

WorkerNext(w) ==
  \/ WorkerPollDone(w)
  \/ WorkerHasFound(w)
  \/ WorkerPop(w)
  \/ WorkerNilLen(w)
  \/ WorkerNilBusy(w)
  \/ WorkerNilFound(w)
  \/ WorkerNilNotFound(w)
  \/ WorkerSendSatisfiable(w)
  \/ WorkerGetBest(w)
  \/ WorkerSendBest(w)
  \/ WorkerSendUnsatisfiable(w)
  \/ WorkerIncrement(w)
  \/ ProcPollDone(w)
  \/ ProcHasFound(w)
  \/ ProcSolvedOptimum(w)
  \/ ProcSolved(w)
  \/ ProcSendResult(w)
  \/ ProcSendSolution(w)
  \/ ProcClose(w)
  \/ ProcUnsolvable(w)
  \/ ProcContradiction(w)
  \/ ProcUnitPropagation(w)
  \/ ProcPureLiteral(w)
  \/ ProcParallelSplit(w)
  \/ ProcPush(w)
  \/ ProcSplit(w)
  \/ DecrementBusyWorkers(w)
  \/ DecrementLen(w)
  \/ DecrementClose(w)

SolveNext ==
  \/ SolveStart
  \/ SolveReceive
  \/ SolveCloseDone
  \/ SolveCloseQueue
  \/ SolveWait
  \/ SolveReceiveSolution

ParNext ==
  \/ Next
  \/ SolveNext
  \/ \E w \in 1..NumWorkers : WorkerNext(w)

ParSpec == ParInit /\ [][ParNext]_vars

\* A goroutine that can take a step is scheduled: the sequential Solve, the
\* parallel Solve and each worker.
FairParSpec ==
  /\ ParSpec
  /\ WF_vars(Next)
  /\ WF_vars(SolveNext)
  /\ \A w \in 1..MaxWorkers : WF_vars(w <= NumWorkers /\ WorkerNext(w))

\* WF: Solve is one goroutine that runs its loop until it breaks.
FairSpec == Spec /\ WF_vars(Next)

\* ------------------------------------------------------------------ claims
\* The literals of `solution`, read as an assignment, satisfy `clause`.
satisfiedBy(clause, solution) ==
  \E j \in 1..Len(clause) : \E k \in 1..Len(solution) :
    clause[j].ID = solution[k].ID /\ clause[j].Negated = solution[k].Negated

satisfiesAll(clauses, solution) ==
  \A i \in 1..Len(clauses) : satisfiedBy(clauses[i], solution)

\* Exhaustive enumeration: some total assignment of the problem's variables
\* makes every clause true.
idsOf(clauses) == {flatten(clauses)[k].ID : k \in 1..Len(flatten(clauses))}

satisfiable(clauses) ==
  \E a \in [idsOf(clauses) -> BOOLEAN] :
    \A i \in 1..Len(clauses) : \E j \in 1..Len(clauses[i]) :
      a[clauses[i][j].ID] = ~clauses[i][j].Negated

\* C1: when Solver.Solve ends SATISFIABLE, every clause of the original
\* problem holds a literal with the id and polarity of some Solution literal.
C1_Soundness ==
  (pc = "done" /\ s.Result = SATISFIABLE) => satisfiesAll(Problem, s.Solution)

\* A SATISFIABLE end reached through a split whose checkpoint is still stacked.
C1_Witness ==
  /\ pc = "done"
  /\ s.Result = SATISFIABLE
  /\ Len(s.CheckpointStack) > 0
  /\ Len(Problem) = MaxClauses

\* C2: Solver.Solve ends SATISFIABLE iff some total assignment satisfies
\* every clause, and UNSATISFIABLE iff none does.
C2_Completeness ==
  pc = "done" =>
    /\ s.Result = SATISFIABLE <=> satisfiable(Problem)
    /\ s.Result = UNSATISFIABLE <=> ~satisfiable(Problem)

\* An UNSATISFIABLE end on a problem that starts with a split (no unit clause,
\* no pure literal, no empty clause): both branches were driven to a dead end.
C2_Witness ==
  /\ pc = "done"
  /\ s.Result = UNSATISFIABLE
  /\ Len(Problem) > 0
  /\ splits(NewSolver(Problem))
  /\ \A i \in 1..Len(Problem) : Len(Problem[i]) > 0

\* C5: on every input Solver.Solve leaves its loop.
C5_Termination == <>(pc = "done")

\* An end of Solve after a split and a backtrack: the stack is empty again and
\* the Solution starts with the negated branch literal.
C5_Witness ==
  /\ pc = "done"
  /\ splits(NewSolver(Problem))
  /\ Len(s.CheckpointStack) = 0
  /\ Len(s.Solution) > 0
  /\ \E maxVarID \in maxVarIDs(Problem) :
       maxVarID # 0 /\ s.Solution[1] = negate(firstOccurrence(Problem, maxVarID, FALSE))

\* C3: ParallelSolver.Solve returns the verdict that Solver.Solve reached on
\* the same formula, and never UNSATISFIABLE for a satisfiable formula.
C3_ParallelEquivalence ==
  solve.pc = "returned" =>
    /\ solve.result = s.Result
    /\ solve.result = UNSATISFIABLE => ~satisfiable(Problem)

\* Two workers, a formula that needs a split and has no model: Solve returned
\* after both workers had work.
C3_Witness ==
  /\ solve.pc = "returned"
  /\ solve.result = UNSATISFIABLE
  /\ NumWorkers = 2
  /\ Len(Problem) = 4
  /\ busyWorkers = 0

\* C4: a SATISFIABLE return of ParallelSolver.Solve carries a non-nil solution
\* whose literals satisfy every clause of the problem.
C4_ParallelSoundness ==
  (solve.pc = "returned" /\ solve.result = SATISFIABLE) =>
    /\ solve.solution # nil
    /\ satisfiesAll(Problem, solve.solution[1])

\* A SATISFIABLE return with two workers on a formula that needs a split.
C4_Witness ==
  /\ solve.pc = "returned"
  /\ solve.result = SATISFIABLE
  /\ NumWorkers = 2
  /\ Len(Problem) = 3
  /\ solve.solution # nil

\* C6: under fair scheduling ParallelSolver.Solve eventually returns.
C6_ParallelTermination == <>(solve.pc = "returned")

\* C7 as stated: on each of the two channels at most one send ever succeeds.
C7_SingleSend == sends.result <= 1 /\ sends.solution <= 1

\* C7: Solve receives one Result; on the solution channel at most one send
\* succeeds; on the result channel one send succeeds before Solve's receive
\* and at most one more after it, which stays in the buffer.
C7_SinglePublication ==
  /\ sends.solution <= 1
  /\ sends.result <= 2
  /\ solve.pc \in {"start", "receive"} => sends.result <= 1
  /\ sends.result = 2 => Len(resultChan) = 1
  /\ solve.pc = "returned" => sends.result >= 1 /\ solve.result \in {SATISFIABLE, UNSATISFIABLE}

\* Solve has returned and a second result send has succeeded after its receive.
C7_Witness ==
  /\ solve.pc = "returned"
  /\ sends.result = 2
  /\ Len(resultChan) = 1

\* The consistent literal sets over the problem's variables, as partial
\* assignments: 1 for the plain literal, 2 for the negated one, 0 for neither.
assignments(clauses) == [idsOf(clauses) -> 0..2]

size(a) == Cardinality({id \in DOMAIN a : a[id] # 0})

satisfies(a, clauses) ==
  \A i \in 1..Len(clauses) : \E j \in 1..Len(clauses[i]) :
    a[clauses[i][j].ID] = (IF clauses[i][j].Negated THEN 2 ELSE 1)

\* C8: the solution returned in optimum mode has the fewest literals: no
\* consistent literal set with fewer elements satisfies every clause.
C8_OptimumMinimal ==
  (solve.pc = "returned" /\ OptimumMode /\ solve.result = SATISFIABLE /\ solve.solution # nil) =>
    ~\E a \in assignments(Problem) :
       size(a) < Len(solve.solution[1]) /\ satisfies(a, Problem)

\* The worker holds a work item: from Pop to the return of processWorkItem.
holdsItem(w) ==
  worker[w].pc \in {"inc", "procDone", "procFound", "step", "push",
                    "sendResult", "sendSolution", "close"}

\* The root work item has been worked off: it is neither queued nor held.
rootDone ==
  /\ solve.pc # "start"
  /\ \A i \in 1..Len(workQueue.items) : workQueue.items[i].Depth # 0
  /\ \A w \in 1..NumWorkers : ~(holdsItem(w) /\ worker[w].Depth = 0)

noRepeat(solution) ==
  \A i \in 1..Len(solution) : \A j \in 1..Len(solution) :
    i # j => solution[i].ID # solution[j].ID

solverNoRepeat(S) ==
  /\ noRepeat(S.Solution)
  /\ \A k \in 1..Len(S.CheckpointStack) : noRepeat(S.CheckpointStack[k].Solution)

\* C10: the live Solution, every checkpoint's Solution and every work item's
\* Solution hold each variable id at most once, in both engines.
C10_NoRepeatedAssignment ==
  /\ solverNoRepeat(s)
  /\ \A w \in 1..NumWorkers :
       /\ solverNoRepeat(worker[w].s)
       /\ \A k \in 1..Len(worker[w].items) : noRepeat(worker[w].items[k].Solution)
  /\ \A i \in 1..Len(workQueue.items) : noRepeat(workQueue.items[i].Solution)

\* A worker holds a Solver with a checkpoint while work items with two
\* literals each are queued.
C10_Witness ==
  \E w \in 1..NumWorkers :
    /\ Len(worker[w].s.CheckpointStack) > 0
    /\ Len(worker[w].s.Solution) >= 2
    /\ Len(workQueue.items) > 0
    /\ \A i \in 1..Len(workQueue.items) : Len(workQueue.items[i].Solution) >= 1

\* The literals a reduction can be called with on the enumerated inputs.
Literals == {Variable(id, negated, FALSE) : id \in 1..MaxVar, negated \in BOOLEAN}

idempotentOn(clauses) ==
  \A rVar \in Literals :
    reduceWorkingSet(reduceWorkingSet(clauses, rVar).WorkCopy, rVar).WorkCopy
      = reduceWorkingSet(clauses, rVar).WorkCopy

\* C11: reducing a working set twice with the same literal gives the working
\* set of the first reduction (clauses, literal order, impossible flags), for
\* the Solver's working set and every checkpoint's, with every literal.
C11_ReducerIdempotent ==
  /\ idempotentOn(s.WorkCopy)
  /\ \A k \in 1..Len(s.CheckpointStack) : idempotentOn(s.CheckpointStack[k].WorkCopy)

\* A working set left by a reduction that removed a clause and marked a
\* literal, and on which a reduction with another literal does both again.
C11_Witness ==
  /\ Len(s.Solution) > 0
  /\ Len(s.WorkCopy) < Len(Problem)
  /\ \E i \in 1..Len(s.WorkCopy) : \E j \in 1..Len(s.WorkCopy[i]) : s.WorkCopy[i][j].Impossible
  /\ \E rVar \in Literals :
       /\ reduceWorkingSet(s.WorkCopy, rVar).didWork
       /\ Len(reduceWorkingSet(s.WorkCopy, rVar).WorkCopy) < Len(s.WorkCopy)
       /\ Len(reduceWorkingSet(s.WorkCopy, rVar).WorkCopy) > 0

\* Solver.Solve as a relation: the ends (Result and Solution) that the loop can
\* reach from the Solver state S, over every iteration order of the maps of
\* pureLiteral and split.
RECURSIVE Outcomes(_)
Outcomes(S) ==
  IF isSolved(S) THEN {[Result |-> SATISFIABLE, Solution |-> S.Solution]}
  ELSE IF isUnsolvable(S) THEN {[Result |-> UNSATISFIABLE, Solution |-> S.Solution]}
  ELSE IF hasContradiction(S)
    THEN IF backtrack(S).did THEN Outcomes(backtrack(S).s)
         ELSE {[Result |-> UNSATISFIABLE, Solution |-> S.Solution]}
  ELSE IF unitPropagation(S).did THEN Outcomes(unitPropagation(S).s)
  ELSE IF pureIDs(S.WorkCopy) # {}
    THEN UNION {Outcomes(pureLiteral(S, order).s) : order \in mapOrders(pureIDs(S.WorkCopy))}
  ELSE UNION {IF split(S, maxVarID).did THEN Outcomes(split(S, maxVarID).s)
              ELSE IF backtrack(split(S, maxVarID).s).did
                   THEN Outcomes(backtrack(split(S, maxVarID).s).s)
                   ELSE {[Result |-> S.Result,
                          Solution |-> backtrack(split(S, maxVarID).s).s.Solution]}
              : maxVarID \in maxVarIDs(S.WorkCopy)}

\* The end this run of Solve reached is one of the ends of the relation.
OutcomeOfRun ==
  pc = "done" => [Result |-> s.Result, Solution |-> s.Solution] \in Outcomes(NewSolver(Problem))

\* C12: every run of Solver.Solve on the input ends with the verdict and the
\* Solution (same literals, same order) of this run.
C12_SequentialDeterminism ==
  pc = "done" =>
    \A o \in Outcomes(NewSolver(Problem)) : o.Result = s.Result /\ o.Solution = s.Solution

\* C13: every split chose the smallest id among those with the greatest count
\* in the working set it branched on (the set kept in the checkpoint it pushed,
\* whose last Solution literal is the negated branch literal).
C13_SmallestIdOnTies ==
  \A k \in 1..Len(s.CheckpointStack) :
    LET checkpoint == s.CheckpointStack[k]
        maxVarID == checkpoint.Solution[Len(checkpoint.Solution)].ID
    IN  \A id \in maxVarIDs(checkpoint.WorkCopy) : maxVarID <= id

\* C14: in every state the work queue holds at most maxQueueSize = 4 * N items.
C14_QueueBound == QueueLen(workQueue) <= maxQueueSize

closes ==
  \/ solve.pc = "closeQueue" /\ solve'.pc # "closeQueue"
  \/ \E w \in 1..NumWorkers :
       worker[w].pc \in {"close", "decClose"} /\ worker'[w].pc # worker[w].pc

\* C16: the closed flag never reverts (so it turns true at most once per
\* invocation), a Close call on a closed queue changes nothing, a Close call
\* leaves the queue closed, and the queue is closed once Solve has returned.
C16_CloseIdempotentMonotone ==
  [][/\ workQueue.closed => workQueue'.closed
     /\ closes /\ workQueue.closed => workQueue' = workQueue
     /\ closes => workQueue'.closed /\ workQueue'.items = workQueue.items
     /\ solve'.pc = "returned" => workQueue'.closed]_vars

\* Solve has closed the queue and a worker that published the first solution
\* is about to call Close on the closed queue.
C16_Witness ==
  /\ solve.pc = "wait"
  /\ workQueue.closed
  /\ \E w \in 1..NumWorkers : worker[w].pc = "close"

\* The runs whose complete behaviours are checked for the join: every run with
\* one worker, and with several workers the inputs of at most three clause
\* lines, in optimum mode of at most two.
JoinRuns ==
  {run \in ParRuns :
     run.numWorkers > 1 => Len(run.clauses) <= (IF run.optimum THEN 2 ELSE 3)}

JoinInit ==
  \E run \in JoinRuns :
    /\ parserLines \in {lines \in ParLines : Lines(lines) = run.clauses}
    /\ Problem = run.clauses
    /\ s = NewSolver(Problem)
    /\ pc = "solve"
    /\ NewParallelSolver(run.numWorkers, run.parallelDepth, run.optimum)
    /\ heap = noHeap

\* The scheduler lets every goroutine that can take a step take one.
FairJoinSpec ==
  /\ JoinInit /\ [][ParNext]_vars
  /\ WF_vars(Next) /\ WF_vars(SolveNext)
  /\ \A w \in 1..MaxWorkers : WF_vars(w <= NumWorkers /\ WorkerNext(w))

\* Every worker goroutine has returned.
allExited == \A w \in 1..NumWorkers : worker[w].pc = "exit"

\* C17: once a send on the result channel has succeeded, every worker
\* eventually exits; and Solve is past activeWorkers.Wait() only when every
\* worker has exited.
C17_GuaranteedJoin ==
  /\ (sends.result >= 1) ~> allExited
  /\ [](solve.pc \in {"receiveSolution", "returned"} => allExited)

\* Solve has returned from a run with two workers, one of which published the
\* verdict while the other one had still to leave its loop.
C17_Witness ==
  /\ solve.pc = "returned"
  /\ NumWorkers = 2
  /\ sends.result >= 1
  /\ allExited

\* The item a worker holds after Pop handed it one.
popped(w) ==
  WorkItem(worker'[w].s.WorkCopy, worker'[w].s.Solution, worker'[w].Depth)

\* C18: a worker leaves Pop only when the queue is non-empty or closed; it
\* leaves with none only when the queue is closed and empty, and the queue is
\* left as it was; otherwise it leaves with the last item pushed and not yet
\* popped, which is taken off the queue, whether or not the queue is closed.
\* Push puts its item behind all the others.
C18_PopContract ==
  [][\A w \in 1..NumWorkers :
       /\ worker[w].pc = "pop" /\ worker'[w].pc # "pop" =>
            /\ Len(workQueue.items) > 0 \/ workQueue.closed
            /\ IF Len(workQueue.items) = 0
               THEN worker'[w].pc = "nilLen" /\ workQueue' = workQueue
               ELSE /\ worker'[w].pc = "inc"
                    /\ popped(w) = workQueue.items[Len(workQueue.items)]
                    /\ workQueue'.items = SubSeq(workQueue.items, 1, Len(workQueue.items) - 1)
                    /\ workQueue'.closed = workQueue.closed
       /\ worker[w].pc = "push" /\ worker'[w] # worker[w] =>
            /\ Len(workQueue'.items) = Len(workQueue.items) + 1
            /\ SubSeq(workQueue'.items, 1, Len(workQueue.items)) = workQueue.items
            /\ workQueue'.items[Len(workQueue'.items)] = Head(worker[w].items)]_vars

\* A worker holds a pushed item that Pop handed it, and the queue, closed by
\* now, still holds two items of different content for the next Pop.
C18_Witness ==
  /\ workQueue.closed
  /\ Len(workQueue.items) >= 2
  /\ workQueue.items[1] # workQueue.items[Len(workQueue.items)]
  /\ \E w \in 1..NumWorkers : worker[w].pc = "inc" /\ worker[w].Depth >= 1

\* Every work item in the queue, held by a worker or about to be pushed.
workItemDepths ==
  {workQueue.items[i].Depth : i \in 1..Len(workQueue.items)}
    \cup {worker[w].Depth : w \in 1..NumWorkers}
    \cup UNION {{worker[w].items[i].Depth : i \in 1..Len(worker[w].items)} : w \in 1..NumWorkers}

\* C19: with ParallelDepth = D > 0 no work item has a Depth above D and a
\* worker goes on to push branch items only from an item of Depth < D (and
\* with room in the queue); with D = 0 a worker that has to split and finds
\* room in the queue never makes the sequential split.
C19_DepthBounded ==
  /\ [](ParallelDepth > 0 => \A d \in workItemDepths : d <= ParallelDepth)
  /\ [][\A w \in 1..NumWorkers :
          /\ worker[w].pc = "step" /\ worker'[w].pc = "push" =>
               /\ QueueLen(workQueue) < maxQueueSize
               /\ ParallelDepth > 0 => worker[w].Depth < ParallelDepth
          /\ /\ worker[w].pc = "step" /\ worker'[w] # worker[w]
             /\ splits(worker[w].s)
             /\ QueueLen(workQueue) < maxQueueSize
             /\ ParallelDepth = 0 \/ worker[w].Depth < ParallelDepth
             => Len(worker'[w].s.CheckpointStack) <= Len(worker[w].s.CheckpointStack)]_vars

\* With ParallelDepth = 1 a worker has made a sequential split on an item of
\* Depth 1 although the queue had room.
C19_Witness ==
  /\ ParallelDepth = 1
  /\ NumWorkers = 1
  /\ QueueLen(workQueue) < maxQueueSize
  /\ worker[1].Depth = 1
  /\ Len(worker[1].s.CheckpointStack) >= 1

\* ------------------------------------------------------------ Parser.Parse
\* main.go before parsing: the clause lines of the file are read, nothing is
\* parsed or solved yet.
ParseInit ==
  /\ parserLines \in RawInputs
  /\ Problem = <<>>
  /\ s = NewSolver(<<>>)
  /\ pc = "parse"
  /\ NewParallelSolver(0, 0, FALSE)
  /\ heap = noHeap

\* Parse: parseClauseLine on every clause line; an error of one of them is
\* returned and no task is delivered, otherwise the clauses go to NewSolver.
Parse ==
  /\ pc = "parse"
  /\ IF accepted(parserLines)
     THEN /\ Problem' = Lines(parserLines)
          /\ s' = NewSolver(Lines(parserLines))
          /\ pc' = "solve"
     ELSE /\ pc' = "rejected"
          /\ UNCHANGED <<Problem, s>>
  /\ UNCHANGED <<heap, parserLines, cfgVars, parVars>>

ParseNext == Parse \/ Next

ParseSpec == ParseInit /\ [][ParseNext]_vars

\* The clause holds a literal together with its negation.
hasOpposite(clause) ==
  \E j, k \in 1..Len(clause) :
    clause[j].ID = clause[k].ID /\ clause[j].Negated # clause[k].Negated

\* The clause holds two literals with identical (id, negated).
hasRepeat(clause) ==
  \E j, k \in 1..Len(clause) :
    j < k /\ clause[j].ID = clause[k].ID /\ clause[j].Negated = clause[k].Negated

\* The same two conditions on a clause line of the file.
lineHasOpposite(line) == \E j, k \in 1..Len(line) : line[j] = 0 - line[k]

lineHasRepeat(line) == \E j, k \in 1..Len(line) : j < k /\ line[j] = line[k]

\* C20 as stated: every clause the parser delivered holds neither a literal
\* with its negation nor a repeated literal, and a file with a clause line
\* that has either is rejected.
C20_ParserGuarantee ==
  /\ pc \in {"solve", "done"} =>
       \A i \in 1..Len(Problem) : ~hasOpposite(Problem[i]) /\ ~hasRepeat(Problem[i])
  /\ /\ pc # "parse"
     /\ \E i \in 1..Len(parserLines) :
          lineHasOpposite(parserLines[i]) \/ lineHasRepeat(parserLines[i])
     => pc = "rejected"

\* C20: every clause the parser delivered holds no literal together with its
\* negation; a file is rejected exactly when one of its clause lines holds a
\* number and its negative, so a repeated literal alone is accepted; and the
\* clauses delivered are the lines' literals in file order.
C20_NoOppositeLiterals ==
  /\ pc \in {"solve", "done"} =>
       /\ \A i \in 1..Len(Problem) : ~hasOpposite(Problem[i])
       /\ Len(Problem) = Len(parserLines)
       /\ \A i \in 1..Len(Problem) :
            /\ Len(Problem[i]) = Len(parserLines[i])
            /\ \A j \in 1..Len(Problem[i]) :
                 /\ Problem[i][j].ID > 0
                 /\ ~Problem[i][j].Impossible
                 /\ parserLines[i][j] =
                      (IF Problem[i][j].Negated THEN 0 - Problem[i][j].ID ELSE Problem[i][j].ID)
  /\ pc # "parse" =>
       (pc = "rejected" <=> \E i \in 1..Len(parserLines) : lineHasOpposite(parserLines[i]))

\* The parser delivered a clause with a repeated literal and the solver has
\* started on it.
C20_Witness ==
  /\ pc = "solve"
  /\ \E i \in 1..Len(Problem) : hasRepeat(Problem[i])
  /\ \E i \in 1..Len(parserLines) : lineHasRepeat(parserLines[i])

\* C21: when parallelSplit has pushed the second of its two work items, the
\* worker returns from processWorkItem (and goes on to DecrementBusyWorkers
\* and the queue); it takes no further step on the state it has split.
C21_SplitEndsBranch ==
  [][\A w \in 1..NumWorkers :
       worker[w].pc = "push" /\ Len(worker[w].items) = 1 /\ worker'[w] # worker[w]
         => worker'[w].pc = "dec"]_vars

\* The step is worker w's successful send of the verdict it reached on the
\* nil path: UNSATISFIABLE, or SATISFIABLE in optimum mode.
publishes(w) ==
  /\ worker[w].pc \in {"sendSat", "sendUnsat"}
  /\ worker'[w].pc # worker[w].pc
  /\ sends'.result = sends.result + 1

\* C22: a worker publishes the verdict of the nil path only in a state where
\* the queue is empty and no worker holds a work item, a popped item whose
\* worker has not yet incremented busyWorkers included.
C22_QuiescentPublication ==
  [][\A w \in 1..NumWorkers :
       publishes(w) =>
         /\ QueueLen(workQueue) = 0
         /\ \A o \in 1..NumWorkers : ~holdsItem(o)]_vars

\* C23: in first-solution mode, in every state where foundSolution reads
\* true, a solution has been put into the solution channel.
C23_ResultVisibility ==
  (~OptimumMode /\ foundSolution) => sends.solution >= 1

\* The step is a WorkQueue method called by worker w (Pop, Len, Push or
\* Close), each of which locks WorkQueue.mu for its duration.
locksQueue(w) ==
  /\ worker[w].pc \in {"pop", "nilLen", "push", "close", "decLen", "decClose"}
  /\ worker'[w] # worker[w]

\* C24: no goroutine locks the queue mutex while it holds the coordinator
\* mutex, so the two are never held together.
C24_LockDiscipline ==
  [][\A w \in 1..NumWorkers : mu = w => ~locksQueue(w)]_vars

\* C25: the coordinator mutex is held across states only inside
\* DecrementBusyWorkers, whose holder can always take its next step (Len and
\* Close wait for no other goroutine); a queue method called by a goroutine
\* that does not hold the coordinator mutex can run whoever holds that mutex
\* and does not take it; so no goroutine waits for a mutex whose holder waits
\* in turn.
C25_NoLockDeadlock ==
  /\ [](/\ mu \in 0..NumWorkers
        /\ \A w \in 1..NumWorkers :
             /\ mu = w => worker[w].pc \in {"decLen", "decClose"}
             /\ mu = w => ENABLED (DecrementLen(w) \/ DecrementClose(w))
             /\ worker[w].pc = "pop" /\ canPop(workQueue) => ENABLED WorkerPop(w)
             /\ worker[w].pc = "nilLen" => ENABLED WorkerNilLen(w)
             /\ worker[w].pc = "push" => ENABLED ProcPush(w)
             /\ worker[w].pc = "close" => ENABLED ProcClose(w))
  /\ [][\A w \in 1..NumWorkers : locksQueue(w) /\ mu # w => mu' = mu]_vars

\* Worker 2 is inside DecrementBusyWorkers with the coordinator mutex while
\* worker 1 is about to pop from a queue that holds an item.
C25_Witness ==
  /\ NumWorkers = 2
  /\ mu = 2
  /\ worker[1].pc = "pop"
  /\ Len(workQueue.items) > 0

\* The places of the clauses of W that hold no non-impossible literal equal to
\* L, and the place in W of the k-th of them.
survivors(W, L) ==
  {i \in 1..Len(W) :
     ~\E j \in 1..Len(W[i]) :
        ~W[i][j].Impossible /\ W[i][j].ID = L.ID /\ W[i][j].Negated = L.Negated}

survivor(W, L, k) ==
  CHOOSE i \in survivors(W, L) : Cardinality({o \in survivors(W, L) : o <= i}) = k

\* What C26 says of reduceWorkingSet(L) on the working set W.
reducesAsStated(W, L) ==
  LET R == reduceWorkingSet(W, L).WorkCopy
  IN  /\ Len(R) = Cardinality(survivors(W, L))
      /\ \A k \in 1..Len(R) :
           LET before == W[survivor(W, L, k)]
           IN  /\ Len(R[k]) = Len(before)
               /\ \A j \in 1..Len(before) :
                    IF /\ ~before[j].Impossible
                       /\ before[j].ID = L.ID
                       /\ before[j].Negated # L.Negated
                    THEN R[k][j] = Variable(before[j].ID, before[j].Negated, TRUE)
                    ELSE R[k][j] = before[j]

\* C26: on the Solver's working set and on every checkpoint's, with every
\* literal L, reduceWorkingSet removes exactly the clauses with a
\* non-impossible literal equal to L, marks exactly the non-impossible
\* literals of L's id and other polarity in the clauses that stay, and keeps
\* every other literal and the order of the clauses.
C26_ReducerSemantics ==
  \A L \in Literals :
    /\ reducesAsStated(s.WorkCopy, L)
    /\ \A k \in 1..Len(s.CheckpointStack) : reducesAsStated(s.CheckpointStack[k].WorkCopy, L)

\* The working set left by the reduction of a split: of the three clauses of
\* the checkpoint one is gone, one has a literal marked and one is as it was.
C26_Witness ==
  /\ Len(s.CheckpointStack) = 1
  /\ Len(s.Solution) = 1
  /\ LET W == s.CheckpointStack[1].WorkCopy
         L == s.Solution[1]
     IN  /\ Len(W) = 3
         /\ s.WorkCopy = reduceWorkingSet(W, L).WorkCopy
         /\ Len(s.WorkCopy) = 2
         /\ \E k \in 1..2 : s.WorkCopy[k] \in {W[i] : i \in 1..3}
         /\ \E k \in 1..2 : \E j \in 1..Len(s.WorkCopy[k]) : s.WorkCopy[k][j].Impossible

\* What C27 says of unitPropagation on the Solver state S.
propagatesAsStated(S) ==
  LET W == S.WorkCopy
      after == unitPropagation(S)
      units == {i \in 1..Len(W) :
                  Cardinality({j \in 1..Len(W[i]) : ~W[i][j].Impossible}) = 1}
  IN  IF units = {}
      THEN ~after.did /\ after.s = S
      ELSE \E i \in units : \E j \in 1..Len(W[i]) :
             /\ \A o \in units : i <= o
             /\ ~W[i][j].Impossible
             /\ after.did
             /\ after.s.Solution = Append(S.Solution, W[i][j])
             /\ after.s.WorkCopy =
                  reduceWorkingSet(SubSeq(W, 1, i - 1) \o SubSeq(W, i + 1, Len(W)),
                                   W[i][j]).WorkCopy
             /\ after.s.CheckpointStack = S.CheckpointStack

\* C27: on every state of the sequential Solver, unitPropagation takes the
\* first clause with exactly one non-impossible literal U, appends U alone to
\* the Solution and leaves the working set that reduceWorkingSet(U) gives on
\* the working set without that clause, returning true; without such a clause
\* it returns false and changes nothing.
C27_UnitPropagationStep == propagatesAsStated(s)

\* The state after a unit propagation that followed a split: the unit is the
\* last literal of the Solution and the working set, not empty, holds a
\* literal the propagation marked.
C27_Witness ==
  /\ pc = "solve"
  /\ Len(s.CheckpointStack) = 1
  /\ Len(s.Solution) = 2
  /\ Len(s.WorkCopy) > 0
  /\ \E i \in 1..Len(s.WorkCopy) : \E j \in 1..Len(s.WorkCopy[i]) :
       s.WorkCopy[i][j].Impossible /\ s.WorkCopy[i][j].ID = s.Solution[2].ID

\* The non-impossible occurrences of id in the working set W, as literals.
occurrences(W, id) ==
  UNION {{W[i][j] : j \in {n \in 1..Len(W[i]) : ~W[i][n].Impossible /\ W[i][n].ID = id}} :
           i \in 1..Len(W)}

\* The ids C28 calls pure: some non-impossible occurrence, all of one polarity.
pureAsStated(W) ==
  {id \in UNION {{W[i][j].ID : j \in 1..Len(W[i])} : i \in 1..Len(W)} :
     /\ occurrences(W, id) # {}
     /\ \A a, b \in occurrences(W, id) : a.Negated = b.Negated}

\* What C28 says of pureLiteral on the Solver state S, whatever the order in
\* which the map of pure literals is gone through.
sweepsAsStated(S) ==
  LET W == S.WorkCopy
      P == pureAsStated(W)
      stays(clause) == \A id \in P : occurrences(<<clause>>, id) = {}
  IN  /\ pureIDs(W) = P
      /\ \A order \in mapOrders(pureIDs(W)) :
           LET after == pureLiteral(S, order)
               added == SubSeq(after.s.Solution, Len(S.Solution) + 1, Len(after.s.Solution))
           IN  /\ after.did = (P # {})
               /\ SubSeq(after.s.Solution, 1, Len(S.Solution)) = S.Solution
               /\ Len(added) = Cardinality(P)
               /\ \A id \in P : \E k \in 1..Len(added) : added[k] \in occurrences(W, id)
               /\ after.s.WorkCopy = SelectSeq(W, stays)
               /\ after.s.CheckpointStack = S.CheckpointStack
               /\ P = {} => after.s = S

\* C28: on every state of the sequential Solver, pureLiteral takes for pure
\* exactly the variables whose non-impossible occurrences have one polarity,
\* appends each of them once, removes exactly the clauses with a
\* non-impossible occurrence of one of them and keeps the others as they are
\* and in order, and returns true iff there was a pure literal.
C28_PureLiteralStep == sweepsAsStated(s)

\* The sweep is about to run (no early exit, no unit clause) on a working set
\* with a pure variable and a clause that stays.
C28_Witness ==
  /\ pc = "solve"
  /\ propagates(s)
  /\ ~unitPropagation(s).did
  /\ pureAsStated(s.WorkCopy) # {}
  /\ \E order \in mapOrders(pureIDs(s.WorkCopy)) :
       /\ Len(pureLiteral(s, order).s.WorkCopy) > 0
       /\ Len(pureLiteral(s, order).s.WorkCopy) < Len(s.WorkCopy)

\* The places <<i, j>> of the literals of id in the working set W.
places(W, id) ==
  UNION {{<<i, j>> : j \in {n \in 1..Len(W[i]) : W[i][n].ID = id}} : i \in 1..Len(W)}

\* The count split goes by: the non-impossible occurrences of id in W.
count(W, id) == Cardinality({pl \in places(W, id) : ~W[pl[1]][pl[2]].Impossible})

\* What C29 says of a branch literal L chosen on the working set W.
chosenAsStated(W, L) ==
  /\ places(W, L.ID) # {}
  /\ \A i \in 1..Len(W) : \A j \in 1..Len(W[i]) : count(W, W[i][j].ID) <= count(W, L.ID)
  /\ \E pl \in places(W, L.ID) :
       /\ \A o \in places(W, L.ID) : pl[1] < o[1] \/ (pl[1] = o[1] /\ pl[2] <= o[2])
       /\ W[pl[1]][pl[2]].Negated = L.Negated

\* The checkpoints of the Solver S: each holds the working set its split
\* branched on and, last in its Solution, the negation of the branch literal.
checkpointsAsStated(S) ==
  \A k \in 1..Len(S.CheckpointStack) :
    LET checkpoint == S.CheckpointStack[k]
        last == checkpoint.Solution[Len(checkpoint.Solution)]
    IN  chosenAsStated(checkpoint.WorkCopy, Variable(last.ID, ~last.Negated, FALSE))

\* C29: the variable of every split, sequential (the checkpoints of the
\* sequential Solver and of the workers' Solvers) or parallel (the two work
\* items a worker is about to push), has the greatest count of non-impossible
\* occurrences in the working set split, and the branch literal has the
\* polarity of the first occurrence of that id in working-set order.
C29_BranchSelection ==
  /\ checkpointsAsStated(s)
  /\ \A w \in 1..NumWorkers :
       /\ checkpointsAsStated(worker[w].s)
       /\ worker[w].pc = "push" /\ Len(worker[w].items) = 2 =>
            LET first == worker[w].items[1].Solution
                second == worker[w].items[2].Solution
            IN  /\ chosenAsStated(worker[w].s.WorkCopy, first[Len(first)])
                /\ second[Len(second)].ID = first[Len(first)].ID
                /\ second[Len(second)].Negated # first[Len(first)].Negated

\* A worker has split in parallel on a variable whose first occurrence is
\* negated and which is used more often than another one.
C29_Witness ==
  \E w \in 1..NumWorkers :
    /\ worker[w].pc = "push"
    /\ Len(worker[w].items) = 2
    /\ LET L == worker[w].items[1].Solution[Len(worker[w].items[1].Solution)]
       IN  /\ L.Negated
           /\ \E i \in 1..Len(worker[w].s.WorkCopy) : \E j \in 1..Len(worker[w].s.WorkCopy[i]) :
                count(worker[w].s.WorkCopy, worker[w].s.WorkCopy[i][j].ID)
                  < count(worker[w].s.WorkCopy, L.ID)

\* The first literal of id in the working set W, in working-set order.
firstLiteral(W, id) ==
  LET pl == CHOOSE p \in places(W, id) :
              \A o \in places(W, id) : p[1] < o[1] \/ (p[1] = o[1] /\ p[2] <= o[2])
  IN  W[pl[1]][pl[2]]

\* What C30 says of split on the Solver state S, whichever of the most used
\* variables the loop over the map ends with.
splitsAsStated(S) ==
  \A maxVarID \in maxVarIDs(S.WorkCopy) :
    maxVarID # 0 =>
      LET L == firstLiteral(S.WorkCopy, maxVarID)
          after == split(S, maxVarID)
      IN  /\ after.did
          /\ after.s.CheckpointStack =
               Append(S.CheckpointStack,
                      [WorkCopy |-> S.WorkCopy,
                       Solution |-> Append(S.Solution,
                                           Variable(L.ID, ~L.Negated, L.Impossible))])
          /\ after.s.Solution = Append(S.Solution, L)
          /\ after.s.WorkCopy = reduceWorkingSet(S.WorkCopy, L).WorkCopy
          /\ after.s.Result = S.Result

\* C30: in every state in which the sequential loop or a worker's loop has
\* come to its split step, split returns true, pushes one checkpoint with the
\* working set as it is and the Solution followed by the negated branch
\* literal, appends the branch literal to the live Solution and reduces the
\* live working set with it.
C30_SequentialSplit ==
  /\ pc = "solve" /\ splits(s) => splitsAsStated(s)
  /\ \A w \in 1..NumWorkers :
       worker[w].pc = "step" /\ splits(worker[w].s) => splitsAsStated(worker[w].s)

\* The sequential loop has just split: one checkpoint, one branch literal in
\* the live Solution and its negation in the checkpoint's.
C30_Witness ==
  /\ pc = "solve"
  /\ Len(s.CheckpointStack) = 1
  /\ Len(s.Solution) = 1
  /\ s.CheckpointStack[1].Solution = <<negate(s.Solution[1])>>
  /\ s.CheckpointStack[1].WorkCopy = NewSolver(Problem).WorkCopy

\* What C31 says of backtrack on the Solver state S.
backtracksAsStated(S) ==
  LET after == backtrack(S)
      n == Len(S.CheckpointStack)
  IN  IF n = 0
      THEN /\ ~after.did
           /\ after.s.WorkCopy = S.WorkCopy
           /\ after.s.Solution = S.Solution
           /\ after.s.CheckpointStack = <<>>
      ELSE LET top == S.CheckpointStack[n]
               last == top.Solution[Len(top.Solution)]
           IN  /\ after.did
               /\ Len(after.s.CheckpointStack) = n - 1
               /\ \A k \in 1..(n - 1) : after.s.CheckpointStack[k] = S.CheckpointStack[k]
               /\ after.s.Solution = top.Solution
               /\ after.s.WorkCopy = reduceWorkingSet(top.WorkCopy, last).WorkCopy
               /\ reducesAsStated(top.WorkCopy, last)

\* C31: on the sequential Solver and on every worker's Solver, backtrack with
\* a checkpoint on the stack pops the top one, takes its Solution and its
\* working set reduced with the last literal of that Solution and returns
\* true; with an empty stack it returns false and leaves working set and
\* Solution as they are.
C31_BacktrackRestore ==
  /\ backtracksAsStated(s)
  /\ \A w \in 1..NumWorkers : backtracksAsStated(worker[w].s)

\* The sequential loop has found a contradiction below a split and is about
\* to backtrack into the checkpoint.
C31_Witness ==
  /\ pc = "solve"
  /\ ~isSolved(s) /\ hasContradiction(s)
  /\ Len(s.CheckpointStack) = 1
  /\ backtrack(s).s.Solution = <<negate(s.Solution[1])>>
  /\ backtrack(s).s.CheckpointStack = <<>>

\* W has a contradictory clause: not empty, every literal impossible.
contradictory(W) ==
  \E i \in 1..Len(W) : Len(W[i]) > 0 /\ \A j \in 1..Len(W[i]) : W[i][j].Impossible

\* W has a unit clause: exactly one literal that is not impossible.
hasUnit(W) ==
  \E i \in 1..Len(W) : Cardinality({j \in 1..Len(W[i]) : ~W[i][j].Impossible}) = 1

\* W has a pure literal: a variable whose literals that are not impossible
\* all have one polarity.
hasPure(W) == pureAsStated(W) # {}

\* A step that applied unit propagation, the pure-literal step or a split to
\* the Solver state S and left T: the loop goes on with another state and no
\* checkpoint was popped. The split is the step that pushes a checkpoint.
precedes(S, T) ==
  (T # S /\ Len(T.CheckpointStack) >= Len(S.CheckpointStack)) =>
    /\ ~contradictory(S.WorkCopy)
    /\ Len(T.CheckpointStack) > Len(S.CheckpointStack) =>
         ~hasUnit(S.WorkCopy) /\ ~hasPure(S.WorkCopy)

\* C33: a step of the sequential loop or of a worker's loop that applies unit
\* propagation, the pure-literal step or a split (sequential or parallel)
\* starts from a working set without a contradictory clause, and a split
\* starts from a working set without a unit clause and without a pure literal.
C33_EnginePrecedence ==
  [][/\ pc = "solve" /\ pc' = "solve" => precedes(s, s')
     /\ \A w \in 1..NumWorkers :
          /\ worker[w].pc = "step" /\ worker'[w].pc = "procDone" =>
               precedes(worker[w].s, worker'[w].s)
          /\ worker[w].pc = "step" /\ worker'[w].pc = "push" =>
               /\ ~contradictory(worker[w].s.WorkCopy)
               /\ ~hasUnit(worker[w].s.WorkCopy)
               /\ ~hasPure(worker[w].s.WorkCopy)]_vars

\* A worker has applied a parallel split and is about to push the first of
\* its two work items.
C33_Witness ==
  \E w \in 1..NumWorkers :
    /\ worker[w].pc = "push"
    /\ Len(worker[w].items) = 2
    /\ ~isSolved(worker[w].s)
    /\ ~contradictory(worker[w].s.WorkCopy)

\* No step applies to the Solver state S: it is not solved, unit propagation,
\* the pure-literal step and split would do nothing, and there is no
\* checkpoint to go back to.
stuck(S) ==
  /\ Len(S.WorkCopy) > 0
  /\ ~hasUnit(S.WorkCopy)
  /\ ~hasPure(S.WorkCopy)
  /\ \A maxVarID \in maxVarIDs(S.WorkCopy) : ~split(S, maxVarID).did
  /\ Len(S.CheckpointStack) = 0

\* C34: Solver.Solve ends with Result SATISFIABLE or UNSATISFIABLE and sets
\* the Result in no other step; from a state where no step applies and the
\* checkpoint stack is empty it ends with UNSATISFIABLE; UNSATISFIABLE is set
\* on an empty checkpoint stack only.
C34_DefiniteVerdict ==
  [][/\ pc = "solve" /\ pc' = "done" =>
          /\ s'.Result \in {SATISFIABLE, UNSATISFIABLE}
          /\ s'.Result = UNSATISFIABLE =>
               Len(s.CheckpointStack) = 0 /\ Len(s'.CheckpointStack) = 0
     /\ pc = "solve" /\ pc' = "solve" => s'.Result = UNKNOWN /\ s.Result = UNKNOWN
     /\ pc = "solve" /\ stuck(s) => pc' = "done" /\ s'.Result = UNSATISFIABLE]_vars

\* Solve has ended with UNSATISFIABLE on a working set to which no step
\* applied: clauses are left, none of them has a literal that is not
\* impossible, and no checkpoint is left.
C34_Witness ==
  /\ pc = "done"
  /\ s.Result = UNSATISFIABLE
  /\ stuck(s)
  /\ ~contradictory(s.WorkCopy)

\* Worker w has called IncrementBusyWorkers for the work item it popped and
\* has not called DecrementBusyWorkers since: it is in processWorkItem or has
\* just returned from it.
counted(w) ==
  worker[w].pc \in {"procDone", "procFound", "step", "push", "sendResult",
                    "sendSolution", "close", "dec"}

\* C38: busyWorkers is the number of workers between their increment and
\* their decrement, so it is at least 0 and at most NumWorkers.
C38_BusyWorkers ==
  /\ busyWorkers = Cardinality({w \in 1..NumWorkers : counted(w)})
  /\ 0 <= busyWorkers
  /\ busyWorkers <= NumWorkers

\* Both workers are counted, and one of them is about to decrement.
C38_Witness ==
  /\ NumWorkers = 2
  /\ busyWorkers = 2
  /\ worker[1].pc = "dec"
  /\ worker[2].pc = "step"

\* A satisfiable formula whose split on variable 1 has an unsatisfiable
\* branch: no unit clause, no pure literal, variable 1 the most used.
BranchLines == { << <<1, 2>>, <<1, -2>>, <<-1, 3, 2>>, <<-1, -3>> >> }

\* The runs with one worker on every formula, and with more workers on the
\* formula with the unsatisfiable branch.
VerdictRuns ==
  {run \in [lines : ParLines \cup BranchLines, numWorkers : 1..MaxWorkers,
            parallelDepth : 0..MaxDepth, optimum : BOOLEAN] :
     run.numWorkers > 1 => run.lines \in BranchLines /\ run.parallelDepth = 0}

VerdictInit ==
  \E run \in VerdictRuns :
    /\ parserLines = run.lines
    /\ Problem = Lines(parserLines)
    /\ s = NewSolver(Problem)
    /\ pc = "solve"
    /\ NewParallelSolver(run.numWorkers, run.parallelDepth, run.optimum)
    /\ heap = noHeap

VerdictSpec == VerdictInit /\ [][ParNext]_vars

\* The step sends v on the result channel (the send case of the select is
\* taken): the channel was empty, holds v now, and one more send is counted.
sendsResult(v) ==
  /\ sends'.result = sends.result + 1
  /\ resultChan = <<>>
  /\ resultChan' = <<v>>

\* The values sent on the result channel so far: the one Solve has received
\* and the one that waits in the channel.
sentResults ==
  {resultChan[k] : k \in 1..Len(resultChan)} \cup
  (IF solve.pc \in {"start", "receive"} THEN {} ELSE {solve.result})

\* C39: every value sent on the result channel equals the values sent before
\* it, and UNSATISFIABLE is not sent while the found flag is set.
C39_NoConflictingVerdicts ==
  [][\A v \in {SATISFIABLE, UNSATISFIABLE} :
       sendsResult(v) =>
         /\ \A o \in sentResults : o = v
         /\ v = UNSATISFIABLE => ~foundSolution]_vars

\* SATISFIABLE was sent twice on a formula with an unsatisfiable branch: Solve
\* has received the first and the second waits in the channel.
C39_Witness ==
  /\ parserLines \in BranchLines
  /\ NumWorkers = 2
  /\ sends.result = 2
  /\ solve.result = SATISFIABLE
  /\ resultChan = <<SATISFIABLE>>

\* ------------------------------------------------- the objects behind a run
\* A run with one worker, followed object by object: the backing arrays of the
\* []parser.Variable and []*parser.Clause slices, the Clause objects, and the
\* slice headers and pointers that the Solver, its checkpoints, the work items,
\* the coordinator and the channels hold.  An address is an index into one of
\* the three stores of `mem`; nothing is ever freed.

\* A slice header: backing array, len, cap.  Every slice of the solver starts
\* at element 0 of its array.
slice(arr, len, cap) == [arr |-> arr, len |-> len, cap |-> cap]

nilSlice == slice(0, 0, 0)

\* The zero value of parser.Variable, in the unused tail of a grown array.
zeroVariable == Variable(0, FALSE, FALSE)

\* mem.vars: the []parser.Variable arrays; mem.ptrs: the []*parser.Clause
\* arrays; mem.clause: the parser.Clause objects, each a Vars slice header.
emptyMem == [vars |-> <<>>, ptrs |-> <<>>, clause |-> <<>>]

\* The elements a slice shows of its array in store A.
elems(A, sl) == IF sl.len = 0 THEN <<>> ELSE SubSeq(A[sl.arr], 1, sl.len)

\* The capacity append gives a slice that is full (small slices double).
grow(cap) == IF cap = 0 THEN 1 ELSE 2 * cap

\* append(sl, v) on a slice of store `vars`: in place while len < cap,
\* otherwise into a fresh array that the old elements are copied to.
appendVar(M, sl, v) ==
  IF sl.len < sl.cap
  THEN [M |-> [M EXCEPT !.vars[sl.arr][sl.len + 1] = v],
        sl |-> slice(sl.arr, sl.len + 1, sl.cap)]
  ELSE LET fresh == [k \in 1..grow(sl.cap) |->
                       IF k <= sl.len THEN M.vars[sl.arr][k]
                       ELSE IF k = sl.len + 1 THEN v ELSE zeroVariable]
       IN  [M |-> [M EXCEPT !.vars = Append(@, fresh)],
            sl |-> slice(Len(M.vars) + 1, sl.len + 1, grow(sl.cap))]

\* append(sl, a) on a slice of store `ptrs`.
appendPtr(M, sl, a) ==
  IF sl.len < sl.cap
  THEN [M |-> [M EXCEPT !.ptrs[sl.arr][sl.len + 1] = a],
        sl |-> slice(sl.arr, sl.len + 1, sl.cap)]
  ELSE LET fresh == [k \in 1..grow(sl.cap) |->
                       IF k <= sl.len THEN M.ptrs[sl.arr][k]
                       ELSE IF k = sl.len + 1 THEN a ELSE 0]
       IN  [M |-> [M EXCEPT !.ptrs = Append(@, fresh)],
            sl |-> slice(Len(M.ptrs) + 1, sl.len + 1, grow(sl.cap))]

\* &parser.Clause{Vars: sl}: a new Clause object.
newClause(M, sl) ==
  [M |-> [M EXCEPT !.clause = Append(@, sl)], addr |-> Len(M.clause) + 1]

\* The literals of the Clause object at address a.
clauseAt(M, a) == elems(M.vars, M.clause[a])

\* The clauses a working set shows: the value the engine's tests look at.
workAt(M, W) == [i \in 1..W.len |-> clauseAt(M, M.ptrs[W.arr][i])]

\* A Solver as the value its fields reach.
solverAt(M, S) ==
  [Result |-> S.Result,
   WorkCopy |-> workAt(M, S.WorkCopy),
   Solution |-> clauseAt(M, S.Solution),
   CheckpointStack |->
     [k \in 1..Len(S.CheckpointStack) |->
        [WorkCopy |-> workAt(M, S.CheckpointStack[k].WorkCopy),
         Solution |-> clauseAt(M, S.CheckpointStack[k].Solution)]]]

\* The value of e, worked out once and handed to F.
bind(e, F(_)) == CHOOSE r \in {F(v) : v \in {e}} : TRUE

\* The deep-copy loop of NewSolver, markCheckpoint, Solve and parallelSplit:
\* for every clause a new Clause with a new Vars array of len(clause.Vars).
RECURSIVE copyClauses(_, _, _)
copyClauses(M, clauses, out) ==
  IF clauses = <<>> THEN [M |-> M, out |-> out]
  ELSE bind(newClause([M EXCEPT !.vars = Append(@, Head(clauses))],
                      slice(Len(M.vars) + 1, Len(Head(clauses)), Len(Head(clauses)))),
            LAMBDA n : copyClauses(n.M, Tail(clauses), Append(out, n.addr)))

\* Fault: a copy that makes a new pointer array and keeps the Clause objects.
deepCopy_Shallow(M, W) ==
  [M |-> [M EXCEPT !.ptrs = Append(@, elems(M.ptrs, W))],
   W |-> slice(Len(M.ptrs) + 1, W.len, W.len)]

\* make([]*parser.Clause, len(W)) filled by the deep-copy loop.
deepCopy(M, W) ==
  bind(copyClauses(M, workAt(M, W), <<>>),
       LAMBDA r : [M |-> [r.M EXCEPT !.ptrs = Append(@, r.out)],
                   W |-> slice(Len(r.M.ptrs) + 1, W.len, W.len)])

\* The sweep that reduceWorkingSet and the inner loop of unitPropagation share.
\* `skip` is reduceWorkingSet's `if cVar.Impossible { continue }`.
\* sameAt: the first literal of the clause equal to rVar, 0 when there is none.
sameAt(clause, rVar, skip) ==
  bind({j \in 1..Len(clause) :
          /\ skip => ~clause[j].Impossible
          /\ clause[j].ID = rVar.ID
          /\ clause[j].Negated = rVar.Negated},
       LAMBDA hits : IF hits = {} THEN 0 ELSE CHOOSE j \in hits : \A k \in hits : j <= k)

\* The literals the sweep marks in a clause: the opposite ones it meets before
\* the literal that removes the clause.
markedAt(clause, rVar, skip) ==
  bind(sameAt(clause, rVar, skip),
       LAMBDA same :
         {j \in 1..Len(clause) :
            /\ skip => ~clause[j].Impossible
            /\ clause[j].ID = rVar.ID
            /\ clause[j].Negated # rVar.Negated
            /\ same = 0 \/ j < same})

\* clauses = append(clauses[:i], clauses[i+1:]...): the tail moves down one
\* slot in the same array, the last slot keeps its old pointer.
shiftOut(arr, len, i) ==
  [k \in 1..Len(arr) |-> IF k >= i /\ k < len THEN arr[k + 1] ELSE arr[k]]

\* The removals of one sweep, first clause holding rVar first.
RECURSIVE removeSame(_, _, _, _, _)
removeSame(M, arr, len, rVar, skip) ==
  bind({i \in 1..len : sameAt(clauseAt(M, arr[i]), rVar, skip) # 0},
       LAMBDA hits :
         IF hits = {} THEN [arr |-> arr, len |-> len]
         ELSE bind(shiftOut(arr, len, CHOOSE i \in hits : \A k \in hits : i <= k),
                   LAMBDA shifted : removeSame(M, shifted, len - 1, rVar, skip)))

\* The slots of the Variable arrays the sweep marks, as <<array, index>>.
sweepMarks(M, W, rVar, skip) ==
  UNION {{<<M.clause[a].arr, j>> : j \in markedAt(clauseAt(M, a), rVar, skip)} :
           a \in {M.ptrs[W.arr][i] : i \in 1..W.len}}

sweep(M, W, rVar, skip) ==
  bind(sweepMarks(M, W, rVar, skip),
       LAMBDA marks :
         bind(IF W.len = 0 THEN [arr |-> <<>>, len |-> 0]
              ELSE removeSame(M, M.ptrs[W.arr], W.len, rVar, skip),
              LAMBDA r :
                bind([M EXCEPT !.vars =
                        [A \in 1..Len(M.vars) |->
                           [j \in 1..Len(M.vars[A]) |->
                              IF <<A, j>> \in marks
                              THEN [M.vars[A][j] EXCEPT !.Impossible = TRUE]
                              ELSE M.vars[A][j]]]],
                     LAMBDA M1 :
                       [M |-> IF W.len = 0 THEN M1 ELSE [M1 EXCEPT !.ptrs[W.arr] = r.arr],
                        W |-> slice(W.arr, r.len, W.cap),
                        didWork |-> marks # {}])))

\* reduceWorkingSet on the Solver's objects.
hReduceWorkingSet(M, S, rVar) ==
  bind(sweep(M, S.WorkCopy, rVar, TRUE),
       LAMBDA r : [M |-> r.M, S |-> [S EXCEPT !.WorkCopy = r.W], did |-> r.didWork])

\* s.Solution.Vars = append(s.Solution.Vars, v).
appendSolution(M, addr, v) ==
  bind(appendVar(M, M.clause[addr], v), LAMBDA r : [r.M EXCEPT !.clause[addr] = r.sl])

\* unitPropagation once the scan has stopped at clause clauseID with `unit`.
hUnitLoop(M, S, clauseID, unit) ==
  bind(appendSolution(M, S.Solution, unit),
       LAMBDA M1 :
         bind([M1 EXCEPT !.ptrs[S.WorkCopy.arr] = shiftOut(@, S.WorkCopy.len, clauseID)],
              LAMBDA M2 :
                bind(sweep(M2, slice(S.WorkCopy.arr, S.WorkCopy.len - 1, S.WorkCopy.cap),
                           unit, FALSE),
                     LAMBDA r : [M |-> r.M, S |-> [S EXCEPT !.WorkCopy = r.W], did |-> TRUE])))

\* unitPropagation on the Solver's objects.
hUnitPropagation(M, S) ==
  bind(workAt(M, S.WorkCopy),
       LAMBDA clauses :
         bind(unitClauses(clauses),
              LAMBDA found :
                IF found = {} THEN [M |-> M, S |-> S, did |-> FALSE]
                ELSE bind(CHOOSE i \in found : \A k \in found : i <= k,
                          LAMBDA clauseID :
                            bind(clauses[clauseID][CHOOSE j \in nonImpossible(clauses[clauseID]) : TRUE],
                                 LAMBDA unit : hUnitLoop(M, S, clauseID, unit)))))

\* newClauses := make([]*parser.Clause, 0) and an append for every kept clause.
RECURSIVE appendPtrs(_, _, _)
appendPtrs(M, sl, addrs) ==
  IF addrs = <<>> THEN [M |-> M, sl |-> sl]
  ELSE bind(appendPtr(M, sl, Head(addrs)), LAMBDA r : appendPtrs(r.M, r.sl, Tail(addrs)))

\* The Clause objects of W without a literal equal to pureLit.
keptPtrs(M, W, pureLit) ==
  LET keep(a) == ~containsPureLit(clauseAt(M, a), pureLit)
  IN  SelectSeq(elems(M.ptrs, W), keep)

\* The second half of pureLiteral on the Solver's objects: the kept Clause
\* objects move to a new pointer array, the old one is left as it was.
RECURSIVE hRemovePure(_, _, _, _)
hRemovePure(M, W, solution, lits) ==
  IF lits = <<>> THEN [M |-> M, W |-> W]
  ELSE bind(keptPtrs(M, W, Head(lits)),
            LAMBDA kept :
              bind(appendSolution(M, solution, Head(lits)),
                   LAMBDA M1 :
                     bind(appendPtrs(M1, nilSlice, kept),
                          LAMBDA r : hRemovePure(r.M, r.sl, solution, Tail(lits)))))

hPureLiteral(M, S, order) ==
  bind(workAt(M, S.WorkCopy),
       LAMBDA clauses :
         bind([k \in 1..Len(order) |-> firstOccurrence(clauses, order[k], TRUE)],
              LAMBDA pureLiterals :
                bind(hRemovePure(M, S.WorkCopy, S.Solution, pureLiterals),
                     LAMBDA r : [M |-> r.M, S |-> [S EXCEPT !.WorkCopy = r.W],
                                 did |-> Len(order) > 0])))

\* for _, v := range vars { copy.Vars = append(copy.Vars, v) } from a nil slice.
RECURSIVE appendVars(_, _, _)
appendVars(M, sl, literals) ==
  IF literals = <<>> THEN [M |-> M, sl |-> sl]
  ELSE bind(appendVar(M, sl, Head(literals)), LAMBDA r : appendVars(r.M, r.sl, Tail(literals)))

\* markCheckpoint on the Solver's objects: the deep copy of the working set and
\* a solutionCopy filled literal by literal.
hMarkCheckpoint(M, S) ==
  bind(deepCopy(M, S.WorkCopy),
       LAMBDA d :
         bind(appendVars(d.M, nilSlice, clauseAt(M, S.Solution)),
              LAMBDA v :
                bind(newClause(v.M, v.sl),
                     LAMBDA n : [M |-> n.M,
                                 checkpoint |-> [WorkCopy |-> d.W, Solution |-> n.addr]])))

\* split once cVar, a copy of the literal found, is picked: the checkpoint gets
\* its negation, the live Solution gets cVar itself.
hSplitOn(M, S, cVar) ==
  bind(hMarkCheckpoint(M, S),
       LAMBDA c :
         bind(appendSolution(c.M, c.checkpoint.Solution, negate(cVar)),
              LAMBDA M1 :
                bind(appendSolution(M1, S.Solution, cVar),
                     LAMBDA M2 :
                       hReduceWorkingSet(
                         M2, [S EXCEPT !.CheckpointStack = Append(@, c.checkpoint)], cVar))))

\* split on the Solver's objects.
hSplit(M, S, maxVarID) ==
  IF maxVarID = 0 THEN [M |-> M, S |-> S, did |-> FALSE]
  ELSE bind(firstOccurrence(workAt(M, S.WorkCopy), maxVarID, FALSE),
            LAMBDA cVar : hSplitOn(M, S, cVar))

\* backtrack from the checkpoint popped: sol is a copy of the checkpoint's
\* Clause (the same Vars array), restoredWorkCopy a new pointer array over the
\* checkpoint's Clause objects; then the reduction with sol's last literal.
hRestore(M, S, backtrackPoint) ==
  bind(newClause(M, M.clause[backtrackPoint.Solution]),
       LAMBDA sol :
         bind([sol.M EXCEPT !.ptrs = Append(@, elems(M.ptrs, backtrackPoint.WorkCopy))],
              LAMBDA M1 :
                bind(clauseAt(M, backtrackPoint.Solution),
                     LAMBDA last :
                       hReduceWorkingSet(
                         M1,
                         [S EXCEPT !.CheckpointStack = SubSeq(@, 1, Len(@) - 1),
                                   !.WorkCopy = slice(Len(M.ptrs) + 1,
                                                      backtrackPoint.WorkCopy.len,
                                                      backtrackPoint.WorkCopy.len),
                                   !.Solution = sol.addr],
                         last[Len(last)]))))

\* backtrack on the Solver's objects.
hBacktrack(M, S) ==
  IF Len(S.CheckpointStack) = 0 THEN [M |-> M, S |-> S, did |-> FALSE]
  ELSE bind(hRestore(M, S, S.CheckpointStack[Len(S.CheckpointStack)]),
            LAMBDA r : [M |-> r.M, S |-> r.S, did |-> TRUE])

\* newSolution of parallelSplit: make(len), copy, append(splitVar).
hNewSolution(M, old, splitVar) ==
  bind(appendVar([M EXCEPT !.vars = Append(@, old)],
                 slice(Len(M.vars) + 1, Len(old), Len(old)), splitVar),
       LAMBDA a : newClause(a.M, a.sl))

\* Fault: a branch that reduces the producer's own working set instead of a
\* copy of it.
hBranchItem_NoCopy(M, S, splitVar, currentDepth) ==
  bind(hNewSolution(M, clauseAt(M, S.Solution), splitVar),
       LAMBDA newSolution :
         bind(sweep(newSolution.M, S.WorkCopy, splitVar, TRUE),
              LAMBDA r :
                [M |-> r.M,
                 item |-> [WorkCopy |-> r.W, Solution |-> newSolution.addr,
                           Depth |-> currentDepth + 1]]))

\* One branch of parallelSplit on the Solver's objects.
hBranchItem(M, S, splitVar, currentDepth) ==
  bind(deepCopy(M, S.WorkCopy),
       LAMBDA d :
         bind(hNewSolution(d.M, clauseAt(M, S.Solution), splitVar),
              LAMBDA newSolution :
                bind(sweep(newSolution.M, d.W, splitVar, TRUE),
                     LAMBDA r :
                       [M |-> r.M,
                        item |-> [WorkCopy |-> r.W, Solution |-> newSolution.addr,
                                  Depth |-> currentDepth + 1]])))

\* parallelSplit once pickedVariable is found, up to its pushes.
hParallelSplitOn(M, S, pickedVariable, currentDepth) ==
  bind(hBranchItem(M, S, Variable(pickedVariable.ID, pickedVariable.Negated, FALSE),
                   currentDepth),
       LAMBDA first :
         bind(hBranchItem(first.M, S,
                          Variable(pickedVariable.ID, ~pickedVariable.Negated, FALSE),
                          currentDepth),
              LAMBDA second :
                [M |-> second.M, did |-> TRUE, items |-> <<first.item, second.item>>]))

\* parallelSplit on the Solver's objects.
hParallelSplit(M, S, maxVarID, currentDepth) ==
  IF maxVarID = 0 THEN [M |-> M, did |-> FALSE, items |-> <<>>]
  ELSE bind(firstOccurrence(workAt(M, S.WorkCopy), maxVarID, FALSE),
            LAMBDA pickedVariable : hParallelSplitOn(M, S, pickedVariable, currentDepth))

\* A nil *WorkItem, and a nil *parser.Clause as an address.
nilItem == [WorkCopy |-> nilSlice, Solution |-> 0, Depth |-> 0]

\* The Solver processWorkItem builds over a work item's own slice and Clause.
itemSolver(item) ==
  [Result |-> UNKNOWN, WorkCopy |-> item.WorkCopy, Solution |-> item.Solution,
   CheckpointStack |-> <<>>]

\* The state of the run once NewSolver has built its Solver over memory M.
hStart(M, problem, workCopy, sol) ==
  [mem |-> M,
   problem |-> problem,
   pc |-> "solve",
   solver |-> [Result |-> UNKNOWN, WorkCopy |-> workCopy, Solution |-> sol,
               CheckpointStack |-> <<>>],
   Depth |-> 0,
   queue |-> <<>>,
   lastWorkItem |-> nilItem,
   foundSolution |-> FALSE,
   bestSolution |-> 0,
   bestSolutionSize |-> MaxInt,
   result |-> UNKNOWN,
   solution |-> 0]

\* task.Clauses as the parser left them, and NewSolver(task) over them.
hNewSolver(clauses) ==
  bind(copyClauses(emptyMem, clauses, <<>>),
       LAMBDA parsed :
         bind(newClause([parsed.M EXCEPT !.ptrs = Append(@, parsed.out)], nilSlice),
              LAMBDA sol :
                bind(deepCopy(sol.M, slice(1, Len(clauses), Len(clauses))),
                     LAMBDA workCopy :
                       hStart(workCopy.M, slice(1, Len(clauses), Len(clauses)),
                              workCopy.W, sol.addr))))

\* A formula on which a split leaves neither a unit clause nor a pure literal,
\* so that a second checkpoint is pushed on top of the first.
DeepLines ==
  { << <<-2, -3>>, <<-3, -4>>, <<1, -2, 3>>, <<-1, 2, -4>>, <<1, 3, 4>> >> }

HeapLines == ParLines \cup DeepLines

\* The runs followed object by object: every formula, one worker.
HeapRuns ==
  [clauses : {Lines(lines) : lines \in HeapLines}, parallelDepth : 0..MaxDepth,
   optimum : BOOLEAN]

HeapInit ==
  \E run \in HeapRuns :
    /\ parserLines \in {lines \in HeapLines : Lines(lines) = run.clauses}
    /\ Problem = run.clauses
    /\ s = NewSolver(Problem)
    /\ pc = "solve"
    /\ NewParallelSolver(1, run.parallelDepth, run.optimum)
    /\ heap = hNewSolver(Problem)

\* The Solver at work, as the value its objects show.
hs == solverAt(heap.mem, heap.solver)

\* The loop goes on (or ends, with pc `to`) with memory M and Solver S.
hContinue(M, S, to) == heap' = [heap EXCEPT !.mem = M, !.solver = S, !.pc = to]

others == <<parserLines, Problem, seqVars, cfgVars, parVars>>

\* Solver.Solve, one action for each way through an iteration.
HeapSolveSolved ==
  /\ heap.pc = "solve"
  /\ isSolved(hs)
  /\ heap' = [heap EXCEPT !.solver.Result = SATISFIABLE, !.pc = "start"]
  /\ UNCHANGED others

HeapSolveUnsolvable ==
  /\ heap.pc = "solve"
  /\ ~isSolved(hs)
  /\ isUnsolvable(hs)
  /\ heap' = [heap EXCEPT !.solver.Result = UNSATISFIABLE, !.pc = "start"]
  /\ UNCHANGED others

HeapSolveContradiction ==
  /\ heap.pc = "solve"
  /\ ~isSolved(hs)
  /\ ~isUnsolvable(hs)
  /\ hasContradiction(hs)
  /\ \E b \in {hBacktrack(heap.mem, heap.solver)} :
       IF b.did THEN hContinue(b.M, b.S, "solve")
       ELSE heap' = [heap EXCEPT !.solver.Result = UNSATISFIABLE, !.pc = "start"]
  /\ UNCHANGED others

HeapSolveUnitPropagation ==
  /\ heap.pc = "solve"
  /\ propagates(hs)
  /\ \E r \in {hUnitPropagation(heap.mem, heap.solver)} :
       r.did /\ hContinue(r.M, r.S, "solve")
  /\ UNCHANGED others

HeapSolvePureLiteral ==
  /\ heap.pc = "solve"
  /\ propagates(hs)
  /\ ~unitPropagation(hs).did
  /\ \E order \in mapOrders(pureIDs(hs.WorkCopy)) :
       \E r \in {hPureLiteral(heap.mem, heap.solver, order)} :
         r.did /\ hContinue(r.M, r.S, "solve")
  /\ UNCHANGED others

HeapSolveSplit ==
  /\ heap.pc = "solve"
  /\ splits(hs)
  /\ \E maxVarID \in maxVarIDs(hs.WorkCopy) :
       \E r \in {hSplit(heap.mem, heap.solver, maxVarID)} :
         r.did /\ hContinue(r.M, r.S, "solve")
  /\ UNCHANGED others

HeapSolveFallback ==
  /\ heap.pc = "solve"
  /\ splits(hs)
  /\ \E maxVarID \in maxVarIDs(hs.WorkCopy) :
       \E r \in {hSplit(heap.mem, heap.solver, maxVarID)} :
         \E b \in {hBacktrack(r.M, r.S)} :
           ~r.did /\ hContinue(b.M, b.S, IF b.did THEN "solve" ELSE "start")
  /\ UNCHANGED others

\* ParallelSolver.Solve: the root work item, a deep copy of the problem.
HeapSolveStart ==
  /\ heap.pc = "start"
  /\ \E initialWorkCopy \in {deepCopy(heap.mem, heap.problem)} :
       \E sol \in {newClause(initialWorkCopy.M, nilSlice)} :
         heap' = [heap EXCEPT
                    !.mem = sol.M,
                    !.queue = <<[WorkCopy |-> initialWorkCopy.W, Solution |-> sol.addr,
                                 Depth |-> 0]>>,
                    !.pc = "pop"]
  /\ UNCHANGED others

\* worker: Pop hands out the newest item; processWorkItem records it as the
\* last work item and builds its Solver over the item's own objects.
HeapWorkerPop ==
  /\ heap.pc = "pop"
  /\ OptimumMode \/ ~heap.foundSolution
  /\ heap.queue # <<>>
  /\ LET item == heap.queue[Len(heap.queue)]
     IN  heap' = [heap EXCEPT !.queue = SubSeq(@, 1, Len(@) - 1),
                              !.lastWorkItem = item,
                              !.solver = itemSolver(item),
                              !.Depth = item.Depth,
                              !.pc = "step"]
  /\ UNCHANGED others

\* worker, normal mode: the solution was found and sent, the worker returns.
HeapWorkerFound ==
  /\ heap.pc = "pop"
  /\ ~OptimumMode /\ heap.foundSolution
  /\ heap' = [heap EXCEPT !.pc = "returned"]
  /\ UNCHANGED others

\* worker, item == nil: the queue is empty and closed, no worker is busy; the
\* best solution (optimum mode) or UNSATISFIABLE is sent.
HeapWorkerExhausted ==
  /\ heap.pc = "pop"
  /\ OptimumMode \/ ~heap.foundSolution
  /\ heap.queue = <<>>
  /\ heap' = IF heap.foundSolution
             THEN [heap EXCEPT !.result = SATISFIABLE, !.solution = heap.bestSolution,
                               !.pc = "returned"]
             ELSE [heap EXCEPT !.result = UNSATISFIABLE, !.pc = "returned"]
  /\ UNCHANGED others

\* UpdateBestSolution's test.
better(solutionSize, bestSize) == solutionSize < bestSize

\* UpdateBestSolution: the coordinator keeps the pointer it is given.
UpdateBestSolution(h, solution) ==
  IF better(h.mem.clause[solution].len, h.bestSolutionSize)
  THEN [h EXCEPT !.bestSolution = solution,
                 !.bestSolutionSize = h.mem.clause[solution].len,
                 !.foundSolution = TRUE]
  ELSE h

\* processWorkItem, s.isSolved() in optimum mode: UpdateBestSolution keeps the
\* pointer it is given; then the backtrack into the next open branch.
HeapProcSolvedOptimum ==
  /\ heap.pc = "step"
  /\ OptimumMode
  /\ isSolved(hs)
  /\ \E b \in {hBacktrack(heap.mem, heap.solver)} :
       \E updated \in {UpdateBestSolution(heap, heap.solver.Solution)} :
         heap' = [updated EXCEPT !.mem = b.M, !.solver = b.S,
                                 !.pc = IF b.did THEN "step" ELSE "pop"]
  /\ UNCHANGED others

\* processWorkItem, s.isSolved() in normal mode: the result and s.Solution are
\* sent, the queue is closed.
HeapProcSolved ==
  /\ heap.pc = "step"
  /\ ~OptimumMode
  /\ isSolved(hs)
  /\ heap' = [heap EXCEPT !.foundSolution = TRUE, !.result = SATISFIABLE,
                          !.solution = heap.solver.Solution, !.pc = "pop"]
  /\ UNCHANGED others

HeapProcUnsolvable ==
  /\ heap.pc = "step"
  /\ ~isSolved(hs)
  /\ isUnsolvable(hs)
  /\ heap' = [heap EXCEPT !.pc = "pop"]
  /\ UNCHANGED others

HeapProcContradiction ==
  /\ heap.pc = "step"
  /\ ~isSolved(hs)
  /\ ~isUnsolvable(hs)
  /\ hasContradiction(hs)
  /\ \E b \in {hBacktrack(heap.mem, heap.solver)} :
       hContinue(b.M, b.S, IF b.did THEN "step" ELSE "pop")
  /\ UNCHANGED others

HeapProcUnitPropagation ==
  /\ heap.pc = "step"
  /\ propagates(hs)
  /\ \E r \in {hUnitPropagation(heap.mem, heap.solver)} :
       r.did /\ hContinue(r.M, r.S, "step")
  /\ UNCHANGED others

HeapProcPureLiteral ==
  /\ heap.pc = "step"
  /\ propagates(hs)
  /\ ~unitPropagation(hs).did
  /\ \E order \in mapOrders(pureIDs(hs.WorkCopy)) :
       \E r \in {hPureLiteral(heap.mem, heap.solver, order)} :
         r.did /\ hContinue(r.M, r.S, "step")
  /\ UNCHANGED others

\* processWorkItem, shouldParallelize said yes: parallelSplit pushes its two
\* items and the loop continues with the Solver it split; with no variable
\* left it returns false and the loop falls through to backtrack.
HeapProcParallelSplit ==
  /\ heap.pc = "step"
  /\ splits(hs)
  /\ shouldParallelize(Len(heap.queue), heap.Depth)
  /\ \E maxVarID \in maxVarIDs(hs.WorkCopy) :
       \E r \in {hParallelSplit(heap.mem, heap.solver, maxVarID, heap.Depth)} :
         \E b \in {hBacktrack(heap.mem, heap.solver)} :
           IF r.did
           THEN heap' = [heap EXCEPT !.mem = r.M, !.queue = @ \o r.items]
           ELSE hContinue(b.M, b.S, IF b.did THEN "step" ELSE "pop")
  /\ UNCHANGED others

\* processWorkItem, shouldParallelize said no: s.split() with a checkpoint, and
\* the fallback backtrack when it returns false.
HeapProcSplit ==
  /\ heap.pc = "step"
  /\ splits(hs)
  /\ ~shouldParallelize(Len(heap.queue), heap.Depth)
  /\ \E maxVarID \in maxVarIDs(hs.WorkCopy) :
       \E r \in {hSplit(heap.mem, heap.solver, maxVarID)} :
         \E b \in {hBacktrack(r.M, r.S)} :
           IF r.did THEN hContinue(r.M, r.S, "step")
           ELSE hContinue(b.M, b.S, IF b.did THEN "step" ELSE "pop")
  /\ UNCHANGED others

HeapNext ==
  \/ HeapSolveSolved
  \/ HeapSolveUnsolvable
  \/ HeapSolveContradiction
  \/ HeapSolveUnitPropagation
  \/ HeapSolvePureLiteral
  \/ HeapSolveSplit
  \/ HeapSolveFallback
  \/ HeapSolveStart
  \/ HeapWorkerPop
  \/ HeapWorkerFound
  \/ HeapWorkerExhausted
  \/ HeapProcSolvedOptimum
  \/ HeapProcSolved
  \/ HeapProcUnsolvable
  \/ HeapProcContradiction
  \/ HeapProcUnitPropagation
  \/ HeapProcPureLiteral
  \/ HeapProcParallelSplit
  \/ HeapProcSplit

HeapSpec == HeapInit /\ [][HeapNext]_vars

\* A checkpoint as the value its objects show in memory M.
checkpointAt(M, checkpoint) ==
  [WorkCopy |-> workAt(M, checkpoint.WorkCopy),
   Solution |-> clauseAt(M, checkpoint.Solution)]

\* The checkpoints on the stack of the Solver at work in state h.
stacked(h) == {h.solver.CheckpointStack[k] : k \in 1..Len(h.solver.CheckpointStack)}

\* C32 (checkpoint isolation): whatever a step of either engine does to the
\* objects of the live state (unit propagation, pure literal, split with its
\* reduction, backtrack with its reduction, parallel split), every checkpoint
\* that is on the stack before and after the step shows the same clauses, the
\* same impossible flags and the same partial solution after it as before; and
\* a checkpoint that the step pushes shows, after the reduction that follows
\* the push, the working set and the solution the live state had before the
\* step, the solution extended by the negated branch literal.
C32_CheckpointIsolation ==
  [][/\ \A c \in stacked(heap) \cap stacked(heap') :
          checkpointAt(heap'.mem, c) = checkpointAt(heap.mem, c)
     /\ \A c \in stacked(heap') \ stacked(heap) :
          /\ heap'.solver.CheckpointStack =
               Append(heap.solver.CheckpointStack, c)
          /\ checkpointAt(heap'.mem, c).WorkCopy = hs.WorkCopy
          /\ \E maxVarID \in maxVarIDs(hs.WorkCopy) :
               checkpointAt(heap'.mem, c).Solution =
                 Append(hs.Solution,
                        negate(firstOccurrence(hs.WorkCopy, maxVarID, FALSE)))]_vars

\* A Solver two splits deep: the reduction after the second split has marked
\* a literal of a live clause, and the checkpoint that split pushed still shows
\* the same clause with that literal unmarked, on top of an older checkpoint.
C32_Witness ==
  /\ Len(heap.solver.CheckpointStack) >= 2
  /\ LET top == checkpointAt(heap.mem, heap.solver.CheckpointStack[Len(heap.solver.CheckpointStack)])
     IN  \E i \in 1..Len(hs.WorkCopy) : \E k \in 1..Len(top.WorkCopy) :
           /\ Len(hs.WorkCopy[i]) = Len(top.WorkCopy[k])
           /\ \A j \in 1..Len(hs.WorkCopy[i]) :
                /\ hs.WorkCopy[i][j].ID = top.WorkCopy[k][j].ID
                /\ hs.WorkCopy[i][j].Negated = top.WorkCopy[k][j].Negated
           /\ \E j \in 1..Len(hs.WorkCopy[i]) :
                hs.WorkCopy[i][j].Impossible /\ ~top.WorkCopy[k][j].Impossible

\* The objects that can be reached from a working-set slice W and a Solution
\* pointer: the pointer array, the Clause objects in any of its slots, the
\* Solution's Clause object, and their Vars arrays.
reach(M, W, solution) ==
  LET clauses == {solution} \cup
                 (IF W.arr = 0 THEN {}
                  ELSE {M.ptrs[W.arr][i] : i \in 1..Len(M.ptrs[W.arr])} \ {0})
  IN  [ptrs |-> {W.arr} \ {0},
       clause |-> clauses,
       vars |-> {M.clause[a].arr : a \in clauses} \ {0}]

apart(a, b) ==
  /\ a.ptrs \cap b.ptrs = {}
  /\ a.clause \cap b.clause = {}
  /\ a.vars \cap b.vars = {}

\* Everything the Solver at work can reach: its live state and its checkpoints.
reachSolver(h) ==
  LET parts == {reach(h.mem, h.solver.WorkCopy, h.solver.Solution)} \cup
               {reach(h.mem, c.WorkCopy, c.Solution) : c \in stacked(h)}
  IN  [ptrs |-> UNION {x.ptrs : x \in parts},
       clause |-> UNION {x.clause : x \in parts},
       vars |-> UNION {x.vars : x \in parts}]

\* A work item as the value its objects show.
itemAt(M, item) ==
  WorkItem(workAt(M, item.WorkCopy), clauseAt(M, item.Solution), item.Depth)

\* The branch of the producer S on literal L, as the claim words it: the
\* producer's solution followed by L, the producer's clauses that hold no live
\* L, in order, with the live opposite literals marked, one level deeper.
branchAsStated(S, L, depth) ==
  LET open(clause) ==
        ~\E j \in 1..Len(clause) :
           ~clause[j].Impossible /\ clause[j].ID = L.ID /\ clause[j].Negated = L.Negated
      kept == SelectSeq(S.WorkCopy, open)
  IN  WorkItem([i \in 1..Len(kept) |->
                  [j \in 1..Len(kept[i]) |->
                     IF /\ ~kept[i][j].Impossible
                        /\ kept[i][j].ID = L.ID
                        /\ kept[i][j].Negated # L.Negated
                     THEN Variable(kept[i][j].ID, kept[i][j].Negated, TRUE)
                     ELSE kept[i][j]]],
               Append(S.Solution, L),
               depth + 1)

\* C35 (parallel split output): a step in which parallelSplit succeeds pushes
\* exactly two work items on top of the queue, the first for the branch literal
\* in the polarity found and the second for the other polarity; each shows the
\* producer's partial solution followed by its literal, the producer's working
\* set reduced with that literal, and the producer's Depth plus one; the objects
\* the two items and the producer can reach are pairwise disjoint, and the
\* producer's slice headers, working set and partial solution are as before.
C35_ParallelSplitOutput ==
  [][heap.pc = "step" /\ heap'.queue # heap.queue /\ heap'.pc = "step" =>
       /\ Len(heap'.queue) = Len(heap.queue) + 2
       /\ SubSeq(heap'.queue, 1, Len(heap.queue)) = heap.queue
       /\ LET first == heap'.queue[Len(heap.queue) + 1]
              second == heap'.queue[Len(heap.queue) + 2]
          IN  /\ \E maxVarID \in maxVarIDs(hs.WorkCopy) :
                   LET L == firstOccurrence(hs.WorkCopy, maxVarID, FALSE)
                   IN  /\ itemAt(heap'.mem, first) =
                            branchAsStated(hs, Variable(L.ID, L.Negated, FALSE), heap.Depth)
                       /\ itemAt(heap'.mem, second) =
                            branchAsStated(hs, Variable(L.ID, ~L.Negated, FALSE), heap.Depth)
              /\ apart(reach(heap'.mem, first.WorkCopy, first.Solution),
                       reach(heap'.mem, second.WorkCopy, second.Solution))
              /\ apart(reach(heap'.mem, first.WorkCopy, first.Solution), reachSolver(heap'))
              /\ apart(reach(heap'.mem, second.WorkCopy, second.Solution), reachSolver(heap'))
       /\ heap'.solver = heap.solver
       /\ heap'.Depth = heap.Depth
       /\ solverAt(heap'.mem, heap'.solver) = hs]_vars

\* A worker that took an item of Depth 1 with a literal in its solution has
\* split it in parallel: the two newest items of the queue are one level
\* deeper and end in the two polarities of one variable.
C35_Witness ==
  /\ heap.pc = "step"
  /\ heap.Depth >= 1
  /\ Len(hs.Solution) >= 1
  /\ Len(hs.WorkCopy) >= 2
  /\ Len(heap.queue) >= 2
  /\ LET first == itemAt(heap.mem, heap.queue[Len(heap.queue) - 1])
         second == itemAt(heap.mem, heap.queue[Len(heap.queue)])
     IN  /\ first.Depth = heap.Depth + 1
         /\ second.Depth = heap.Depth + 1
         /\ SubSeq(first.Solution, 1, Len(hs.Solution)) = hs.Solution
         /\ SubSeq(second.Solution, 1, Len(hs.Solution)) = hs.Solution
         /\ Len(first.Solution) = Len(hs.Solution) + 1
         /\ first.Solution[Len(first.Solution)] =
              negate(second.Solution[Len(second.Solution)])
         /\ Len(first.WorkCopy) < Len(hs.WorkCopy)

\* ------------------------------------------------------------ the two views
\* A run of main.go with --parallel, either by value with its workers
\* interleaved (heap = noHeap) or object by object with one worker.
ViewInit == ParInit \/ HeapInit

ViewNext ==
  \/ heap = noHeap /\ ParNext
  \/ heap # noHeap /\ HeapNext

ViewSpec == ViewInit /\ [][ViewNext]_vars

\* The objects every queued work item can reach are its own: no two queued
\* items, and no queued item and the Solver at work, reach a common object.
itemsApart(h) ==
  /\ \A i, j \in 1..Len(h.queue) :
       i # j => apart(reach(h.mem, h.queue[i].WorkCopy, h.queue[i].Solution),
                      reach(h.mem, h.queue[j].WorkCopy, h.queue[j].Solution))
  /\ \A i \in 1..Len(h.queue) :
       apart(reach(h.mem, h.queue[i].WorkCopy, h.queue[i].Solution), reachSolver(h))

\* The Solver processWorkItem builds over a popped item, by value.
solverOver(item) ==
  [Result |-> UNKNOWN, WorkCopy |-> item.WorkCopy, Solution |-> item.Solution,
   CheckpointStack |-> <<>>]

offers(w) == worker[w].pc = "step" /\ OptimumMode /\ isSolved(worker[w].s)

\* C37 (best-solution bookkeeping in optimum mode), for the runs of ViewSpec:
\* two workers on formulas whose splits have no choice, one worker on every
\* formula.  By value, under every interleaving: the recorded best changes only to the solution of a worker
\* whose Solver is solved and only when that solution is strictly shorter than
\* bestSolutionSize; bestSolutionSize never increases, is MaxInt while nothing
\* is recorded and the length of bestSolution afterwards; every solved state a
\* worker reaches leaves bestSolutionSize at most the length of its solution;
\* and a SATISFIABLE optimum run returns the recorded best, with every worker
\* gone.  By object: the Clause that bestSolution points to shows the same
\* literals after every later step of the worker that found it, its recorded
\* size is its length, and it is what the run returns.
C37_BestSolution ==
  [][/\ heap = noHeap =>
          /\ bestSolution' # bestSolution =>
               \E w \in 1..NumWorkers :
                 /\ offers(w)
                 /\ worker'[w] # worker[w]
                 /\ bestSolution' = ref(worker[w].s.Solution)
                 /\ Len(worker[w].s.Solution) < bestSolutionSize
          /\ bestSolutionSize' <= bestSolutionSize
          /\ IF bestSolution' = nil THEN bestSolutionSize' = MaxInt
             ELSE bestSolutionSize' = Len(bestSolution'[1])
          /\ \A w \in 1..NumWorkers :
               offers(w) /\ worker'[w] # worker[w] =>
                 bestSolutionSize' <= Len(worker[w].s.Solution)
          /\ OptimumMode /\ solve'.pc = "returned" /\ solve'.result = SATISFIABLE =>
               /\ solve'.solution = bestSolution'
               /\ solve'.solution # nil
               /\ \A w \in 1..NumWorkers : worker'[w].pc = "exit"
     /\ heap # noHeap =>
          /\ heap.bestSolution # 0 =>
               clauseAt(heap'.mem, heap.bestSolution) = clauseAt(heap.mem, heap.bestSolution)
          /\ heap'.bestSolution # heap.bestSolution =>
               /\ heap.pc = "step" /\ OptimumMode /\ isSolved(hs)
               /\ heap'.bestSolution = heap.solver.Solution
               /\ Len(hs.Solution) < heap.bestSolutionSize
          /\ heap'.bestSolutionSize <= heap.bestSolutionSize
          /\ IF heap'.bestSolution = 0 THEN heap'.bestSolutionSize = MaxInt
             ELSE heap'.bestSolutionSize = Len(clauseAt(heap'.mem, heap'.bestSolution))
          /\ heap.pc = "step" /\ OptimumMode /\ isSolved(hs) =>
               heap'.bestSolutionSize <= Len(hs.Solution)
          /\ OptimumMode /\ heap'.pc = "returned" /\ heap'.result = SATISFIABLE =>
               heap'.solution = heap'.bestSolution /\ heap'.solution # 0]_vars

\* The worker has recorded a solution, gone back to a checkpoint and worked
\* on: its live Solution is another Clause than the recorded one and is solved
\* again with more literals than the recorded best.
C37_Witness ==
  /\ heap # noHeap
  /\ OptimumMode
  /\ heap.pc = "step"
  /\ heap.bestSolution # 0
  /\ heap.solver.Solution # heap.bestSolution
  /\ isSolved(hs)
  /\ Len(hs.Solution) > heap.bestSolutionSize

\* ------------------------------------------- a worker held up after its Pop
\* A formula whose splits have a choice among equally used variables (1 and 2,
\* three uses each), solved by two workers in optimum mode: its solutions have
\* two or three literals, depending on the variables the splits pick.
LateLines == << <<1, 2>>, <<1, -2, 3>>, <<-1, -2, -3>> >>

LateRuns ==
  JoinRuns \cup {[clauses |-> Lines(LateLines), numWorkers |-> 2,
                  parallelDepth |-> 0, optimum |-> TRUE]}

LateInit ==
  \E run \in LateRuns :
    /\ parserLines \in {lines \in ParLines \cup {LateLines} : Lines(lines) = run.clauses}
    /\ Problem = run.clauses
    /\ s = NewSolver(Problem)
    /\ pc = "solve"
    /\ NewParallelSolver(run.numWorkers, run.parallelDepth, run.optimum)
    /\ heap = noHeap

\* Worker w is at the head of its loop or inside Pop: it holds no item.
waiting(w) == worker[w].pc \in {"top", "check", "pop"}

\* The runs of ParSpec in which the scheduler does not run worker 2 between
\* its Pop and the return of worker 1: goroutines are preempted at any point,
\* so each of these runs is a run of the program.
LateNext ==
  \/ Next
  \/ SolveNext
  \/ WorkerNext(1)
  \/ NumWorkers > 1 /\ (waiting(2) \/ worker[1].pc = "exit") /\ WorkerNext(2)

LateSpec == LateInit /\ [][LateNext]_vars

\* C37 (the returned solution is the best): a SATISFIABLE run in optimum mode
\* returns the recorded best solution, which no solution a worker reached
\* undercuts in length.
C37_ReturnsBest ==
  OptimumMode /\ solve.pc = "returned" /\ solve.result = SATISFIABLE =>
    /\ solve.solution = bestSolution
    /\ solve.solution # nil
    /\ Len(solve.solution[1]) = bestSolutionSize

\* ------------------------------------------ a worker held up until the Close
HeldRuns ==
  JoinRuns \cup {[clauses |-> Lines(lines), numWorkers |-> 2,
                  parallelDepth |-> 0, optimum |-> TRUE] : lines \in DeepLines}

HeldInit ==
  \E run \in HeldRuns :
    /\ parserLines \in {lines \in HeapLines : Lines(lines) = run.clauses}
    /\ Problem = run.clauses
    /\ s = NewSolver(Problem)
    /\ pc = "solve"
    /\ NewParallelSolver(run.numWorkers, run.parallelDepth, run.optimum)
    /\ heap = noHeap

\* The runs of ParSpec in which the scheduler does not run worker 2 between
\* its Pop and the Close of the queue.  Worker 2 pushes on a closed queue only,
\* and the queue is empty when DecrementBusyWorkers closes it.
HeldNext ==
  \/ Next
  \/ SolveNext
  \/ WorkerNext(1)
  \/ NumWorkers > 1 /\ (waiting(2) \/ workQueue.closed) /\ WorkerNext(2)

\* The fairness is that of the program, as in FairJoinSpec: every goroutine
\* that can take a step of its code is scheduled, worker 2 included.
HeldSpec ==
  /\ HeldInit /\ [][HeldNext]_vars
  /\ WF_vars(Next) /\ WF_vars(SolveNext)
  /\ \A w \in 1..MaxWorkers : WF_vars(w <= NumWorkers /\ WorkerNext(w))

\* The closed queue holds items and no result has been sent.  Solve closes the
\* queue after it has received a result, and the queue that
\* DecrementBusyWorkers closes is empty, so these items were pushed after the
\* Close.
pushedAfterClose ==
  workQueue.closed /\ Len(workQueue.items) > 0 /\ sends.result = 0

\* C40 (push after close is not lost): the items pushed on a closed queue are
\* popped, the one at the bottom of the stack last, so the queue gets empty,
\* or else a result is published.
C40_PushAfterClose ==
  pushedAfterClose ~> (Len(workQueue.items) = 0 \/ sends.result > 0)

====
